---- MODULE Spec2Model ----
(***************************************************************************)
(* kaiten-api-tools: the card download tool (src/download-card.mjs).       *)
(*                                                                         *)
(* The model follows one run of the tool: either the command line entry    *)
(* point (stdout-only, single card, or recursive download) or a library    *)
(* call of downloadCard.  Every `await` of the source is two steps: the    *)
(* operation is issued (it joins `pending`) and later completes, with      *)
(* success or failure chosen by the environment.  The Kaiten API is a      *)
(* finite set of cards whose content is fixed the first time it is         *)
(* requested.                                                              *)
(***************************************************************************)
EXTENDS Integers, Sequences, FiniteSets, TLC

\* ------------------------------------------------------------- bounds
NumCards == 3        \* cards the API holds (the root card is card 1)
MaxKids == 2         \* longest children list the API returns
MaxFiles == 2        \* attachments the API holds, over all cards
MaxComments == 1     \* comments the API holds, over all cards
MaxDepthOpt == 2     \* largest --max-depth given on the command line
MaxFaults == 1       \* most failing operations in one run
MaxDotDot == 2       \* most '..' segments in an attachment name

\* ------------------------------------------------------------- constants
DefaultMaxDepth == 3

RootId == 1
CardIds == 1..NumCards

VARIABLES
  argv,       \* parsed command line / library call options
  env,        \* process.env: whether KAITEN_API_BASE_URL is set
  api,        \* the Kaiten API: what each card, comments and children request returns
  phase,      \* "start" | "running" | "exited" | "returned" | "threw"
  stack,      \* active calls, innermost last: downloadCardRecursive frames or the one CLI/library frame
  pending,    \* operations issued and not yet completed
  disk,       \* paths (directories and files) that exist
  issued,     \* every operation issued so far
  stdout,     \* markdown documents printed to standard output
  exitCode,   \* -1 while the process runs, else the exit code
  faults,     \* failures injected so far
  hist        \* bookkeeping of calls and outcomes

vars == <<argv, env, api, phase, stack, pending, disk, issued, stdout, exitCode, faults, hist>>

\* ------------------------------------------------------------- helpers
Last(s) == s[Len(s)]
Front(s) == SubSeq(s, 1, Len(s) - 1)
Range(s) == {s[k] : k \in 1..Len(s)}
IsPrefix(p, q) == Len(p) <= Len(q) /\ SubSeq(q, 1, Len(p)) = p
Prefixes(p) == {SubSeq(p, 1, k) : k \in 1..Len(p)}

\* path.join(dir, name)
Join(dir, name) == Append(dir, name)

\* path.join resolves the '..' segments of its result: a '..' removes the
\* segment before it, and stays when there is none left to remove
ResolveSegment(done, s) ==
  IF s = ".."
  THEN IF done # <<>> /\ Last(done) # ".." THEN Front(done) ELSE Append(done, "..")
  ELSE Append(done, s)

RECURSIVE Resolve(_, _)
Resolve(done, rest) ==
  IF rest = <<>> THEN done ELSE Resolve(ResolveSegment(done, Head(rest)), Tail(rest))

Normalize(p) == Resolve(<<>>, p)

\* path.join(dir, name) for a name that holds separators: name is its segments
JoinName(dir, name) == Normalize(dir \o name)

\* cardId.toString(), child.id in a path
IdName(id) == ToString(id)

\* ------------------------------------------------------------- the API's data
NoCard == [id |-> 0, cc |-> FALSE, nfiles |-> 0]
NoMd == [id |-> 0, cc |-> FALSE, nfiles |-> 0, ncomments |-> 0, children |-> <<>>]

\* The markdown document of a card: the sections downloadCard renders depend on
\* the card's id/title, its children counters, its files, the comments and the
\* children list handed to the renderer.
RenderMarkdown(card, ncomments, childrenData) ==
  [id |-> card.id, cc |-> card.cc, nfiles |-> card.nfiles,
   ncomments |-> ncomments, children |-> childrenData]

\* ------------------------------------------------------------- parseCardInput
\* An input string is either text that `new URL` rejects (a word, digits, with or
\* without surrounding blanks) or a URL: scheme, host name, port and the segments
\* of its path ("/a/b/" has the segments a, b and the empty segment).
MaxSegs == 5         \* longest URL path, in segments

DigitTokens == {"12345", "54133274"}
Segments == {"space", "boards", "card", "12345", "abc", ""}
Texts == {"12345", "54133274", "abc", "12a", "kaiten.ru/12345", ""}

TextInput(t, pad) == [kind |-> "text", text |-> t, pad |-> pad]
UrlInput(scheme, name, port, segs) ==
  [kind |-> "url", scheme |-> scheme, name |-> name, port |-> port, segs |-> segs]

\* /^\d+$/.test(s)
IsDigits(s) == s \in DigitTokens

\* new URL(input): the parser lower-cases the scheme and the host name and drops
\* the default port of the scheme
LowerCase(t) ==
  CASE t = "HTTPS" -> "https"
    [] t = "Company.Kaiten.ru" -> "company.kaiten.ru"
    [] OTHER -> t
DefaultPort(scheme) == IF scheme = "https" THEN "443" ELSE "80"
UrlProtocol(u) == LowerCase(u.scheme)
UrlHost(u) ==
  IF u.port = "" \/ u.port = DefaultPort(UrlProtocol(u))
  THEN <<LowerCase(u.name)>> ELSE <<LowerCase(u.name), u.port>>

\* url.pathname.includes('/boards/card/')
IsBoardCardPath(segs) ==
  \E k \in 1..Len(segs) : k + 2 <= Len(segs) /\ segs[k] = "boards" /\ segs[k + 1] = "card"

\* pathParts.findIndex(part => part === 'card'), as an index into the segments
CardIndex(segs) == CHOOSE k \in 1..Len(segs) : segs[k] = "card" /\ \A j \in 1..(k - 1) : segs[j] # "card"

\* the card id taken from the path: the segment after the first 'card' segment, or
\* the path without its leading slash; <<>> stands for undefined
ExtractCardId(segs) ==
  IF IsBoardCardPath(segs)
  THEN IF CardIndex(segs) + 1 <= Len(segs) THEN <<segs[CardIndex(segs) + 1]>> ELSE <<>>
  ELSE IF Len(segs) = 1 THEN <<segs[1]>> ELSE <<"a/b">>

\* if (!apiBase) throw new Error('Set environment variable KAITEN_API_BASE_URL ...')
\* (variant: the configured base is not asked for)
MissingApiBaseNever(envBase) == FALSE
MissingApiBase(envBase) == ~envBase

ParseError(what) == [ok |-> FALSE, error |-> what, cardId |-> "", apiBase |-> <<>>]
Parsed(cardId, apiBase) == [ok |-> TRUE, error |-> "", cardId |-> cardId, apiBase |-> apiBase]

\* `${url.protocol}//${url.host}/api/v1`
\* (variant: the configured base wins over the URL's own host)
ApiBaseOfEnvFirst(u, envBase) == IF envBase THEN <<"env">> ELSE <<UrlProtocol(u)>> \o UrlHost(u) \o <<"api/v1">>
ApiBaseOf(u, envBase) == <<UrlProtocol(u)>> \o UrlHost(u) \o <<"api/v1">>

\* (variant: the extracted card id is not tested)
ValidCardIdAny(id) == id # <<>> /\ id[1] # ""
\* if (!cardId || !/^\d+$/.test(cardId)) throw ...
ValidCardId(id) == id # <<>> /\ id[1] # "" /\ IsDigits(id[1])

parseCardInput(input, envBase) ==
  IF input.kind = "text"
  THEN IF IsDigits(input.text)
       THEN IF MissingApiBase(envBase) THEN ParseError("Set environment variable KAITEN_API_BASE_URL")
            ELSE Parsed(input.text, <<"env">>)
       ELSE ParseError("Invalid URL format")
  ELSE IF ValidCardId(ExtractCardId(input.segs))
       THEN Parsed(ExtractCardId(input.segs)[1], ApiBaseOf(input, envBase))
       ELSE ParseError("Invalid URL format")

\* the card arguments of the runs of the tool: a bare id, a card URL, a word
CardInputOf(card) ==
  CASE card = "id" -> TextInput("12345", FALSE)
    [] card = "url" -> UrlInput("https", "company.kaiten.ru", "", <<"12345">>)
    [] OTHER -> TextInput("abc", FALSE)

\* parseCardInput as the entry point uses it: the card the run is about is the
\* root card of the API
ParseCardInput(input, envBase) ==
  LET r == parseCardInput(CardInputOf(input), envBase)
  IN [ok |-> r.ok, cardId |-> IF r.ok THEN RootId ELSE 0,
      apiBase |-> IF ~r.ok THEN "none" ELSE IF r.apiBase = <<"env">> THEN "env" ELSE "url"]

\* extractSubdomain(apiBase) and the default output directory ./data/<subdomain>
DefaultOutputDir == <<"data", "sub">>
GivenOutputDir == <<"out">>

\* ------------------------------------------------------------- frames
NewFrame(ctx, cardId, depth, maxDepth, outputDir, incl, token) ==
  [ctx |-> ctx, cardId |-> cardId, depth |-> depth, maxDepth |-> maxDepth,
   outputDir |-> outputDir, incl |-> incl, token |-> token,
   pc |-> "getCard", waiting |-> FALSE,
   card |-> NoCard, comments |-> 0, children |-> <<>>, md |-> NoMd,
   i |-> 1, downloaded |-> <<>>]

\* (variant: the recursive path writes into outputDir itself)
CardDirFlat(f) == f.outputDir

\* const cardDir = path.join(outputDir, cardId.toString())   (recursive)
\* const cardOutputDir = argv.outputDir || path.join('./data', subdomain, cardId)
CardDir(f) ==
  IF f.ctx = "single" THEN f.outputDir ELSE Join(f.outputDir, IdName(f.cardId))

\* file.name || `file_${file.id}` for the k-th attachment of a card
FileName(cardId, k) == "file_" \o ToString(cardId) \o "_" \o ToString(k)
\* `comment_${i + 1}_${comment.id || 'unknown'}.json`
CommentName(k) == "comment_" \o ToString(k)

Top == stack[Len(stack)]
SetTop(stk, f) == [stk EXCEPT ![Len(stk)] = f]

\* ------------------------------------------------------------- operations
\* (variant: the header is sent whether there is a token or not)
AuthHeaderAlways(token) == <<"Bearer", token>>
\* const headers = token ? { Authorization: `Bearer ${token}` } : {}
AuthHeader(token) == IF token # "" THEN <<"Bearer", token>> ELSE <<>>

\* the token a default applies to: yargs' default of --token and the default of
\* downloadCard's token parameter are both process.env.KAITEN_API_TOKEN
TokenOrEnv(token) == IF token = "none" THEN env.token ELSE token

\* the operations that are HTTP requests
HttpKinds == {"getCard", "getComments", "getChildren", "getFile", "post"}

\* the headers of a request a call makes: those built from its token parameter;
\* the attachment loop of the single card path builds them from argv.token
HeadersOf(kind, f) ==
  IF kind \notin HttpKinds THEN <<>>
  ELSE IF kind = "getFile" /\ f.ctx = "single" THEN AuthHeader(TokenOrEnv(argv.token))
  ELSE AuthHeader(f.token)

Op(kind, f, idx, path) ==
  [kind |-> kind, card |-> f.cardId, idx |-> idx, path |-> path,
   auth |-> HeadersOf(kind, f), payload |-> <<>>]

CommentsDir(f) == Join(CardDir(f), "comments")
FilesDir(f) == Join(CardDir(f), "files")
ChildrenDir(f) == Join(CardDir(f), "children")
\* const fileName = file.name || `file_${file.id}`: the name is the API's
AttachmentName(cardId, k) == api.namePrefix \o <<FileName(cardId, k)>>
FilePath(f, k) == JoinName(FilesDir(f), AttachmentName(f.cardId, k))

IoPcs == {"getCard", "getComments", "getChildren", "mkdirCard", "writeMd", "writeJson",
          "mkdirComments", "writeComment", "mkdirFiles", "requestFile", "pipeFile",
          "mkdirChildren", "post", "postFallback"}

\* ------------------------------------------------------------- resource creators
\* createSpace({ name }), createBoard({ spaceId, name }), createColumn({ boardId,
\* title }), createCard({ boardId, name }), each with optional token and apiBase.
\* An API base is <<prefix, version>>; <<>> is the empty string and <<"none">> an
\* option that was not passed.
MaxPostFaults == 2   \* most failing POST requests in one creator call

Creators == {"createSpace", "createBoard", "createColumn", "createCard"}

\* apiBase = process.env.KAITEN_API_BASE_URL (default of the parameter)
BaseOrEnv(base) ==
  IF base = <<"none">> THEN (IF env.apiBase THEN <<"env", "v1">> ELSE <<>>) ELSE base

\* apiBase.endsWith('/v1')
EndsWithV1(base) == base # <<>> /\ Last(base) = "v1"
\* apiBase.replace(/\/v1$/, '/latest')
ToLatest(base) == IF EndsWithV1(base) THEN Append(Front(base), "latest") ELSE base

\* (variant: the API base is not checked)
CreatorErrorNoBase(a) ==
  IF a.fn # "createSpace" /\ a.parentId = ""
  THEN (IF a.fn = "createBoard" THEN "spaceId is required" ELSE "boardId is required")
  ELSE IF a.name = ""
  THEN (IF a.fn = "createColumn" THEN "title is required" ELSE "name is required")
  ELSE ""

\* the argument checks at the head of each creator, in their order; "" when they pass
CreatorError(a) ==
  IF a.fn # "createSpace" /\ a.parentId = ""
  THEN (IF a.fn = "createBoard" THEN "spaceId is required" ELSE "boardId is required")
  ELSE IF a.name = ""
  THEN (IF a.fn = "createColumn" THEN "title is required" ELSE "name is required")
  ELSE IF BaseOrEnv(a.apiBase) = <<>> THEN "Set environment variable KAITEN_API_BASE_URL"
  ELSE ""

\* the URL of the POST
PostUrl(a) ==
  CASE a.fn = "createSpace" -> BaseOrEnv(a.apiBase) \o <<"spaces">>
    [] a.fn = "createBoard" -> BaseOrEnv(a.apiBase) \o <<"spaces", a.parentId, "boards">>
    [] a.fn = "createColumn" -> ToLatest(BaseOrEnv(a.apiBase)) \o <<"boards", a.parentId, "columns">>
    [] a.fn = "createCard" -> ToLatest(BaseOrEnv(a.apiBase)) \o <<"cards">>

\* createSpace, after a failed POST: the same request on /latest
\* (variant: the retry goes to the same URL)
FallbackUrlSame(a) == BaseOrEnv(a.apiBase) \o <<"spaces">>

FallbackUrl(a) == ToLatest(BaseOrEnv(a.apiBase)) \o <<"spaces">>

\* (variant: the card is placed in the first column and lane of its board)
CardPayloadWithColumn(a) ==
  <<<<"title", a.name>>, <<"column_id", "first">>, <<"lane_id", "first">>>>
\* { title: name, board_id: boardId }
CardPayload(a) == <<<<"title", a.name>>, <<"board_id", a.parentId>>>>

\* the body of the POST
Payload(a) ==
  CASE a.fn = "createBoard" -> <<<<"title", a.name>>, <<"columns", "[]">>, <<"lanes", "[]">>>>
    [] a.fn = "createCard" -> CardPayload(a)
    [] OTHER -> <<<<"title", a.name>>>>

PostOp(f, attempt, url) == [Op("post", f, attempt, url) EXCEPT !.payload = Payload(argv)]

\* the operation the frame awaits at its program point
OpOf(f) ==
  CASE f.pc = "getCard" -> Op("getCard", f, 0, CardDir(f))
    [] f.pc = "getComments" -> Op("getComments", f, 0, CardDir(f))
    [] f.pc = "getChildren" -> Op("getChildren", f, 0, CardDir(f))
    [] f.pc = "mkdirCard" -> Op("mkdir", f, 0, CardDir(f))
    [] f.pc = "writeMd" -> Op("writeFile", f, 0, Join(CardDir(f), "card.md"))
    [] f.pc = "writeJson" -> Op("writeFile", f, 0, Join(CardDir(f), "card.json"))
    [] f.pc = "mkdirComments" -> Op("mkdir", f, 0, CommentsDir(f))
    [] f.pc = "writeComment" -> Op("writeFile", f, f.i, Join(CommentsDir(f), CommentName(f.i)))
    [] f.pc = "mkdirFiles" -> Op("mkdir", f, 0, FilesDir(f))
    [] f.pc = "requestFile" -> Op("getFile", f, f.i, FilePath(f, f.i))
    [] f.pc = "pipeFile" -> Op("pipe", f, f.i, FilePath(f, f.i))
    [] f.pc = "mkdirChildren" -> Op("mkdir", f, 0, ChildrenDir(f))
    [] f.pc = "post" -> PostOp(f, 1, PostUrl(argv))
    [] f.pc = "postFallback" -> PostOp(f, 2, FallbackUrl(argv))

At(f, pc) == [f EXCEPT !.pc = pc, !.waiting = FALSE]
AtLoop(f, pc, k) == [f EXCEPT !.pc = pc, !.waiting = FALSE, !.i = k]

\* ------------------------------------------------------------- control flow
\* (variant: the depth test off by one)
WithinDepthInclusive(f) == f.depth <= f.maxDepth

\* if (children && children.length > 0 && currentDepth < maxDepth)
WithinDepth(f) == f.depth < f.maxDepth

\* (variant: the depth is handed down unchanged)
ChildDepthSame(f) == f.depth

\* currentDepth: currentDepth + 1
ChildDepth(f) == f.depth + 1

\* the children loop of downloadCardRecursive, or the end of the single-card path
AfterFiles(f) ==
  IF f.ctx = "rec" /\ Len(f.children) > 0 /\ WithinDepth(f)
  THEN At(f, "mkdirChildren")
  ELSE At(f, "return")

\* for (const file of card.files): the next attachment, or what follows the loop
NextFile(f) ==
  IF f.i < f.card.nfiles THEN AtLoop(f, "requestFile", f.i + 1) ELSE AfterFiles(f)

\* if (card.files && card.files.length > 0): the attachment loop of either path
FilesLoop(f) ==
  IF f.card.nfiles > 0 THEN AtLoop(f, "requestFile", 1) ELSE AfterFiles(f)

\* (variant: the children loop comes right after the comments block)
AfterCommentsRecNoFiles(f) == AfterFiles(f)

\* recursive path: the "Download all files" block follows the comments block
AfterCommentsRec(f) ==
  IF f.card.nfiles > 0 THEN At(f, "mkdirFiles") ELSE AfterFiles(f)

\* what follows a successful mkdir
AfterMkdir(f) ==
  CASE f.pc = "mkdirCard" /\ f.ctx = "rec" -> At(f, "writeMd")
    [] f.pc = "mkdirCard" /\ f.ctx # "rec" ->
         IF f.card.nfiles > 0 THEN At(f, "mkdirFiles")
         ELSE IF f.comments > 0 THEN At(f, "mkdirComments")
         ELSE At(f, "writeMd")
    [] f.pc = "mkdirFiles" /\ f.ctx = "rec" -> AtLoop(f, "requestFile", 1)
    [] f.pc = "mkdirFiles" /\ f.ctx # "rec" ->
         IF f.comments > 0 THEN At(f, "mkdirComments") ELSE At(f, "writeMd")
    [] f.pc = "mkdirComments" /\ f.ctx = "rec" -> AtLoop(f, "writeComment", 1)
    [] f.pc = "mkdirComments" /\ f.ctx # "rec" -> At(f, "writeMd")
    [] f.pc = "mkdirChildren" -> AtLoop(f, "callChild", 1)
    [] OTHER -> f

\* what follows a successful writeFile
AfterWrite(f) ==
  CASE f.pc = "writeMd" -> At(f, "writeJson")
    [] f.pc = "writeJson" /\ f.ctx = "rec" ->
         IF f.comments > 0 THEN At(f, "mkdirComments") ELSE AfterCommentsRec(f)
    [] f.pc = "writeJson" /\ f.ctx # "rec" ->
         IF f.comments > 0 THEN AtLoop(f, "writeComment", 1) ELSE FilesLoop(f)
    [] f.pc = "writeComment" ->
         IF f.i < f.comments THEN AtLoop(f, "writeComment", f.i + 1)
         ELSE IF f.ctx = "rec" THEN AfterCommentsRec(f) ELSE FilesLoop(f)
    [] OTHER -> f

\* for (const child of children): the next child, or the return statement
NextChild(f) ==
  IF f.i < Len(f.children) THEN AtLoop(f, "callChild", f.i + 1) ELSE At(f, "return")

\* downloadedChildren.push(childData)
\* variant: the result is put in front of the list
PushChildFront(list, childData) == <<childData>> \o list
PushChild(list, childData) == Append(list, childData)

\* return { card, children: downloadedChildren }
ResultOf(f) == [card |-> f.card.id, children |-> f.downloaded]

\* whether the call that throws was made inside the try block of the children loop
\* variant: the children loop without its try/catch
NotCaught(stk) == FALSE
Caught(stk) == Len(stk) > 1

\* the catch block of downloadCard: throw err
\* variant: the error is wrapped into a new error object
RethrowWrapped(err) == [err EXCEPT !.kind = "wrapped"]
Rethrow(err) == err

\* await: the caller is suspended until the operation completes
\* variant: writeFile(card.md) is started but not awaited
FireAndForget(f) == IF f.pc = "writeMd" THEN AfterWrite(f) ELSE [f EXCEPT !.waiting = TRUE]
Suspend(f) == [f EXCEPT !.waiting = TRUE]

\* ------------------------------------------------------------- the Kaiten API
Min(a, b) == IF a < b THEN a ELSE b

\* GET /cards/{id}: the card's content, fixed by the first response
CardChoices(c) ==
  IF api.card[c] # <<>> THEN {api.card[c][1]}
  ELSE {[id |-> c, cc |-> b, nfiles |-> n] : b \in BOOLEAN, n \in {0, api.filesLeft}}

\* GET /cards/{id}/comments
CommentChoices(c) ==
  IF api.comments[c] >= 0 THEN {api.comments[c]} ELSE {0, api.commentsLeft}

\* GET /cards/{id}/children: cards not seen before, optionally followed by a card
\* already on the path from the root (a cyclic children relation)
FreshKids(k) == [j \in 1..k |-> api.next + j - 1]
KidChoices(c, onPath) ==
  IF api.kids[c] # <<>> THEN {api.kids[c][1]}
  ELSE {l \in {FreshKids(k) \o back :
                 k \in 0..Min(MaxKids, NumCards + 1 - api.next),
                 back \in {<<>>, <<RootId>>}} : Len(l) <= MaxKids}

OnPath(stk) == {stk[k].cardId : k \in 1..Len(stk)}

\* ------------------------------------------------------------- initial state
Argv(mode, card, so, r, d, sk, od, tk) ==
  [mode |-> mode, card |-> card, stdoutOnly |-> so, recursive |-> r, maxDepth |-> d,
   skipFilesDownload |-> sk, outputDir |-> od, token |-> tk]

\* The runs: the command lines of the README and of the tests, and library calls
\* of downloadCard, each with KAITEN_API_BASE_URL set or not.
\*   card: "none" (no argument), "id" (bare numeric id), "url" (supported URL), "bad"
CommandLines ==
  {Argv("cli", c, TRUE, FALSE, DefaultMaxDepth, FALSE, FALSE, "none") :
     c \in {"none", "bad", "id", "url"}}
  \cup {Argv("cli", "id", TRUE, TRUE, 1, FALSE, FALSE, "none")}
  \cup {Argv("cli", "id", FALSE, FALSE, DefaultMaxDepth, FALSE, od, "none") : od \in BOOLEAN}
  \cup {Argv("cli", "url", FALSE, FALSE, DefaultMaxDepth, TRUE, FALSE, "none")}
  \cup {Argv("cli", "url", FALSE, TRUE, d, FALSE, FALSE, "none") : d \in 0..MaxDepthOpt}
  \cup {Argv("cli", "url", FALSE, TRUE, 1, TRUE, TRUE, "cli-token")}

LibraryCalls ==
  {Argv("lib", c, FALSE, r, DefaultMaxDepth, FALSE, FALSE, "none") :
     c \in {"none", "id"}, r \in BOOLEAN}
  \cup {Argv("lib", "id", FALSE, TRUE, DefaultMaxDepth, FALSE, FALSE, tk) : tk \in {"", "lib-token"}}

\* the environment (.env) either sets KAITEN_API_BASE_URL and KAITEN_API_TOKEN or
\* neither
EnvToken(apiBase) == IF apiBase THEN "env-token" ELSE ""

\* calls of the resource creators
CreatorArgv(fn, name, parentId, tk, base) ==
  [mode |-> "create", card |-> "none", stdoutOnly |-> FALSE, recursive |-> FALSE,
   maxDepth |-> 0, skipFilesDownload |-> FALSE, outputDir |-> FALSE, token |-> tk,
   fn |-> fn, name |-> name, parentId |-> parentId, apiBase |-> base]

CreatorCalls ==
  {CreatorArgv(fn, n, pid, tk, base) :
     fn \in Creators, n \in {"", "name"}, pid \in {"", "7"}, tk \in {"none", "", "token"},
     base \in {<<"none">>, <<>>, <<"kaiten", "v1">>, <<"kaiten", "latest">>}}

Scenarios ==
  {[argv |-> a, apiBase |-> b] :
     a \in CommandLines \cup LibraryCalls \cup CreatorCalls, b \in BOOLEAN}

NoHist ==
  [calls |-> {},        \* recursive calls made: directory, depth, caller's depth
   returned |-> {},     \* card directories whose call returned
   threw |-> {},        \* card directories whose call threw
   results |-> {},      \* <<card directory, value returned>>
   failed |-> {},       \* operations that failed
   fileFailed |-> {},   \* attachments whose download failed
   fileDone |-> {},     \* attachments downloaded
   rootResult |-> <<>>, \* what the outermost downloadCardRecursive returned
   libError |-> <<>>,   \* what the library caller caught
   libResult |-> <<>>]  \* what the library caller received

\* the attachment names of the API: a file name, after 0..MaxDotDot segments '..'
NamePrefixes == {[k \in 1..n |-> ".."] : n \in 0..MaxDotDot}

Start(prefixes) ==
  /\ \E s \in Scenarios :
       /\ argv = s.argv
       /\ env = [apiBase |-> s.apiBase, token |-> EnvToken(s.apiBase)]
       /\ s.argv.card = "url" /\ ~s.argv.stdoutOnly => ~s.apiBase
  /\ \E prefix \in prefixes :
       api = [card |-> [c \in CardIds |-> <<>>], kids |-> [c \in CardIds |-> <<>>],
              comments |-> [c \in CardIds |-> -1], next |-> RootId + 1,
              filesLeft |-> MaxFiles, commentsLeft |-> MaxComments,
              namePrefix |-> prefix]
  /\ phase = "start"
  /\ stack = <<>>
  /\ pending = {}
  /\ disk = {}
  /\ issued = {}
  /\ stdout = <<>>
  /\ exitCode = -1
  /\ faults = 0
  /\ hist = NoHist

\* attachment names without separators
Init == Start({<<>>})

\* ------------------------------------------------------------- entry points
Exit(code) ==
  /\ phase' = "exited"
  /\ exitCode' = code
  /\ stack' = <<>>

\* if (!cardInput) { console.error(...); process.exit(1); }
CliMissingCard ==
  /\ phase = "start" /\ argv.mode = "cli" /\ argv.card = "none"
  /\ Exit(1)
  /\ UNCHANGED <<argv, env, api, pending, disk, issued, stdout, faults, hist>>

\* parseCardInput throws: caught by the catch of the entry point, process.exit(1)
CliParseFails ==
  /\ phase = "start" /\ argv.mode = "cli" /\ argv.card # "none"
  /\ ~ParseCardInput(argv.card, env.apiBase).ok
  /\ Exit(1)
  /\ UNCHANGED <<argv, env, api, pending, disk, issued, stdout, faults, hist>>

Enter(f) ==
  /\ phase' = "running"
  /\ stack' = <<f>>
  /\ UNCHANGED <<argv, env, api, pending, disk, issued, stdout, exitCode, faults>>

\* if (argv.stdoutOnly) { downloadCard({..., includeChildren: argv.recursive }) ... }
CliStdoutOnly ==
  /\ phase = "start" /\ argv.mode = "cli" /\ argv.card # "none"
  /\ ParseCardInput(argv.card, env.apiBase).ok
  /\ argv.stdoutOnly
  /\ Enter(NewFrame("stdout", ParseCardInput(argv.card, env.apiBase).cardId, 0,
                    argv.maxDepth, <<>>, argv.recursive, TokenOrEnv(argv.token)))
  /\ hist' = hist

\* if (argv.recursive) { await downloadCardRecursive({..., outputDir, maxDepth: argv.maxDepth }) }
CliRecursive ==
  /\ phase = "start" /\ argv.mode = "cli" /\ argv.card # "none"
  /\ ParseCardInput(argv.card, env.apiBase).ok
  /\ ~argv.stdoutOnly /\ argv.recursive
  /\ LET f == NewFrame("rec", ParseCardInput(argv.card, env.apiBase).cardId, 0, argv.maxDepth,
                       IF argv.outputDir THEN GivenOutputDir ELSE DefaultOutputDir, TRUE,
                       TokenOrEnv(argv.token))
     IN /\ Enter(f)
        /\ hist' = [hist EXCEPT !.calls = @ \cup {[dir |-> CardDir(f), depth |-> 0, from |-> -1]}]

\* Regular single card download
CliSingle ==
  /\ phase = "start" /\ argv.mode = "cli" /\ argv.card # "none"
  /\ ParseCardInput(argv.card, env.apiBase).ok
  /\ ~argv.stdoutOnly /\ ~argv.recursive
  /\ LET id == ParseCardInput(argv.card, env.apiBase).cardId
     IN Enter(NewFrame("single", id, 0, argv.maxDepth,
                       IF argv.outputDir THEN GivenOutputDir
                       ELSE Join(DefaultOutputDir, IdName(id)), FALSE,
                       TokenOrEnv(argv.token)))
  /\ hist' = hist

ValidationError(what) ==
  [kind |-> what, card |-> 0, idx |-> 0, path |-> <<>>, auth |-> <<>>, payload |-> <<>>]

\* downloadCard called by a library user; the argument checks come first
LibCall ==
  /\ phase = "start" /\ argv.mode = "lib"
  /\ IF argv.card = "none" \/ ~env.apiBase
     THEN /\ phase' = "threw"
          /\ stack' = <<>>
          /\ hist' = [hist EXCEPT !.libError =
                        <<ValidationError(IF argv.card = "none" THEN "cardId is required"
                                          ELSE "Set environment variable KAITEN_API_BASE_URL")>>]
     ELSE /\ phase' = "running"
          /\ stack' = <<NewFrame("lib", RootId, 0, argv.maxDepth, <<>>, argv.recursive,
                                  TokenOrEnv(argv.token))>>
          /\ hist' = hist
  /\ UNCHANGED <<argv, env, api, pending, disk, issued, stdout, exitCode, faults>>

\* ------------------------------------------------------------- issuing an operation
Running == phase = "running" /\ stack # <<>>
MayFail == faults < MaxFaults

\* the frame reaches an await: the operation starts and the frame is suspended
Issue ==
  /\ Running
  /\ Top.pc \in IoPcs /\ ~Top.waiting
  /\ pending' = pending \cup {OpOf(Top)}
  /\ issued' = issued \cup {OpOf(Top)}
  /\ stack' = SetTop(stack, Suspend(Top))
  /\ UNCHANGED <<argv, env, api, phase, disk, stdout, exitCode, faults, hist>>

\* the frame that awaits the operation, if any
Awaited(op) == Running /\ Top.pc \in IoPcs /\ Top.waiting /\ OpOf(Top) = op

\* ------------------------------------------------------------- exceptions
\* An exception leaves the innermost call.  Inside the children loop it is caught
\* (catch (err) { console.error(...) }) and the loop goes on with the next child;
\* otherwise it reaches the entry point's catch (process.exit(1)) or the library caller.
Unwind(stk) ==
  IF Caught(stk) THEN SetTop(Front(stk), NextChild(stk[Len(stk) - 1])) ELSE <<>>

\* variant: the catch block of the entry point ends the process as a success
ExitCodeOnErrorSuccess == 1 - 1

\* process.exit(1) in the catch block of the entry point
ExitCodeOnError == 1

Raise(err) ==
  /\ stack' = Unwind(stack)
  /\ phase' = IF Caught(stack) THEN phase
              ELSE IF argv.mode = "lib" THEN "threw" ELSE "exited"
  /\ exitCode' = IF Caught(stack) \/ argv.mode = "lib" THEN exitCode ELSE ExitCodeOnError
  /\ hist' = [hist EXCEPT !.threw = @ \cup {CardDir(Top)},
                          !.failed = @ \cup {err},
                          !.libError = IF ~Caught(stack) /\ argv.mode = "lib"
                                       THEN <<Rethrow(err)>> ELSE @]

\* ------------------------------------------------------------- downloadCard
\* (variant: a failed card request is logged and the call goes on without a card)
CardFailureSwallowed(err) ==
  /\ stack' = SetTop(stack, At(Top, "mkdirCard"))
  /\ hist' = [hist EXCEPT !.failed = @ \cup {err}]
  /\ UNCHANGED <<phase, exitCode>>

\* the catch block of downloadCard: the error is printed and thrown again; the
\* recursive caller has no try around its call of downloadCard
CardFailure(err) == Raise(err)

\* const response = await axios.get(url, { headers })
CardResponse ==
  \E op \in pending, ok \in BOOLEAN :
    /\ op.kind = "getCard" /\ Awaited(op)
    /\ ok \/ MayFail
    /\ pending' = pending \ {op}
    /\ faults' = IF ok THEN faults ELSE faults + 1
    /\ IF ok
       THEN \E r \in CardChoices(op.card) :
              /\ api' = [api EXCEPT !.card[op.card] = <<r>>,
                                     !.filesLeft = IF api.card[op.card] = <<>>
                                                   THEN @ - r.nfiles ELSE @]
              /\ stack' = SetTop(stack, At([Top EXCEPT !.card = r], "getComments"))
              /\ UNCHANGED <<phase, exitCode, hist>>
       ELSE /\ CardFailure(op)
            /\ api' = api
    /\ UNCHANGED <<argv, env, disk, issued, stdout>>

\* downloadCard returns { card, markdown, comments, children } to its caller:
\* the recursive and the single card path go on to the directory, the stdout-only
\* path prints the markdown and exits 0, the library caller receives the value.
\* (variant: the children section is left out when the children are not downloaded)
RenderedWithoutLinks(f) ==
  [f EXCEPT !.md = RenderMarkdown(f.card, f.comments,
                                  IF f.depth < f.maxDepth THEN f.children ELSE <<>>)]

Rendered(f) == [f EXCEPT !.md = RenderMarkdown(f.card, f.comments, f.children)]

DownloadCardReturns(f, h) ==
  LET g == Rendered(f) IN
  CASE f.ctx = "stdout" ->
         /\ stdout' = Append(stdout, g.md)
         /\ Exit(0)
         /\ hist' = h
    [] f.ctx = "lib" ->
         /\ phase' = "returned"
         /\ stack' = <<>>
         /\ hist' = [h EXCEPT !.libResult =
                       <<[card |-> g.card, markdown |-> g.md, comments |-> g.comments,
                          children |-> g.children]>>]
         /\ UNCHANGED <<stdout, exitCode>>
    [] OTHER ->
         /\ stack' = SetTop(stack, At(g, "mkdirCard"))
         /\ hist' = h
         /\ UNCHANGED <<phase, stdout, exitCode>>

\* the bookkeeping of an operation's outcome
Noted(ok, op) == IF ok THEN hist ELSE [hist EXCEPT !.failed = @ \cup {op}]

\* variant: the children are fetched whatever includeChildren says
WantsChildrenAlways(f) == f.card.cc

\* if (includeChildren && (card.children_count > 0))
WantsChildren(f) == f.incl /\ f.card.cc

\* fetchCardComments: a failure is logged and the comments are the empty list
CommentsResponse ==
  \E op \in pending, ok \in BOOLEAN :
    /\ op.kind = "getComments" /\ Awaited(op)
    /\ ok \/ MayFail
    /\ pending' = pending \ {op}
    /\ faults' = IF ok THEN faults ELSE faults + 1
    /\ \E n \in (IF ok THEN CommentChoices(op.card) ELSE {0}) :
         /\ api' = IF ok
                   THEN [api EXCEPT !.comments[op.card] = n,
                                    !.commentsLeft = IF api.comments[op.card] < 0
                                                     THEN @ - n ELSE @]
                   ELSE api
         /\ LET f == [Top EXCEPT !.comments = n] IN
            IF WantsChildren(f)
            THEN /\ stack' = SetTop(stack, At(f, "getChildren"))
                 /\ hist' = Noted(ok, op)
                 /\ UNCHANGED <<phase, stdout, exitCode>>
            ELSE DownloadCardReturns(f, Noted(ok, op))
    /\ UNCHANGED <<argv, env, disk, issued>>

\* fetchCardChildren: a failure is logged and the children are the empty list
ChildrenResponse ==
  \E op \in pending, ok \in BOOLEAN :
    /\ op.kind = "getChildren" /\ Awaited(op)
    /\ ok \/ MayFail
    /\ pending' = pending \ {op}
    /\ faults' = IF ok THEN faults ELSE faults + 1
    /\ \E l \in (IF ok THEN KidChoices(op.card, OnPath(stack)) ELSE {<<>>}) :
         /\ api' = IF ok
                   THEN [api EXCEPT !.kids[op.card] = <<l>>,
                                    !.next = IF api.kids[op.card] = <<>>
                                             THEN @ + Cardinality(Range(l) \ OnPath(stack))
                                             ELSE @]
                   ELSE api
         /\ DownloadCardReturns([Top EXCEPT !.children = l], Noted(ok, op))
    /\ UNCHANGED <<argv, env, disk, issued>>

\* ------------------------------------------------------------- the filesystem
\* await mkdir(dir, { recursive: true }): the directory and its missing parents
MkdirDone ==
  \E op \in pending, ok \in BOOLEAN :
    /\ op.kind = "mkdir" /\ Awaited(op)
    /\ ok \/ MayFail
    /\ pending' = pending \ {op}
    /\ faults' = IF ok THEN faults ELSE faults + 1
    /\ IF ok
       THEN /\ disk' = disk \cup Prefixes(op.path)
            /\ stack' = SetTop(stack, AfterMkdir(Top))
            /\ UNCHANGED <<phase, exitCode, hist>>
       ELSE /\ Raise(op)
            /\ disk' = disk
    /\ UNCHANGED <<argv, env, api, issued, stdout>>

\* await writeFile(path, data, 'utf-8'): fails when the directory is missing
WriteDone ==
  \E op \in pending, ok \in BOOLEAN :
    /\ op.kind = "writeFile" /\ Awaited(op)
    /\ IF ok THEN Front(op.path) \in disk ELSE (MayFail \/ Front(op.path) \notin disk)
    /\ pending' = pending \ {op}
    /\ faults' = IF ok \/ Front(op.path) \notin disk THEN faults ELSE faults + 1
    /\ IF ok
       THEN /\ disk' = disk \cup {op.path}
            /\ stack' = SetTop(stack, AfterWrite(Top))
            /\ UNCHANGED <<phase, exitCode, hist>>
       ELSE /\ Raise(op)
            /\ disk' = disk
    /\ UNCHANGED <<argv, env, api, issued, stdout>>

\* ------------------------------------------------------------- downloadFile
\* const response = await axios({ method: 'GET', url, responseType: 'stream', headers })
\* a failure rejects downloadFile and is caught in the attachment loop
FileResponse ==
  \E op \in pending, ok \in BOOLEAN :
    /\ op.kind = "getFile" /\ Awaited(op)
    /\ ok \/ MayFail
    /\ pending' = pending \ {op}
    /\ faults' = IF ok THEN faults ELSE faults + 1
    /\ stack' = SetTop(stack, IF ok THEN At(Top, "pipeFile") ELSE NextFile(Top))
    /\ hist' = IF ok THEN hist
               ELSE [hist EXCEPT !.fileFailed = @ \cup {op.path}, !.failed = @ \cup {op}]
    /\ UNCHANGED <<argv, env, api, phase, disk, issued, stdout, exitCode>>

\* response.data.pipe(writer); the returned promise resolves on the writer's 'finish'
\* and rejects on the writer's 'error'.  An error of the response stream ends the
\* transfer without either event: the promise never settles.
PipeOutcomes == {"finish", "writerError", "sourceError"}

AfterPipe(f, outcome) ==
  CASE outcome = "finish" -> NextFile(f)
    [] outcome = "writerError" -> NextFile(f)
    [] OTHER -> f

PipeDone ==
  \E op \in pending, outcome \in PipeOutcomes :
    /\ op.kind = "pipe" /\ Awaited(op)
    /\ outcome = "finish" \/ MayFail
    /\ pending' = pending \ {op}
    /\ faults' = IF outcome = "finish" THEN faults ELSE faults + 1
    /\ disk' = IF outcome = "writerError" THEN disk ELSE disk \cup {op.path}
    /\ stack' = SetTop(stack, AfterPipe(Top, outcome))
    /\ hist' = IF outcome = "finish"
               THEN [hist EXCEPT !.fileDone = @ \cup {op.path}]
               ELSE [hist EXCEPT !.fileFailed = @ \cup {op.path}, !.failed = @ \cup {op}]
    /\ UNCHANGED <<argv, env, api, phase, issued, stdout, exitCode>>

\* ------------------------------------------------------------- the children loop
\* const childData = await downloadCardRecursive({ cardId: child.id, ...,
\*   outputDir: childrenDir, maxDepth, currentDepth: currentDepth + 1 })
ChildFrame(f) ==
  NewFrame("rec", f.children[f.i], ChildDepth(f), f.maxDepth, ChildrenDir(f), TRUE, f.token)

CallChild ==
  /\ Running
  /\ Top.pc = "callChild"
  /\ stack' = Append(stack, ChildFrame(Top))
  /\ hist' = [hist EXCEPT !.calls = @ \cup
                {[dir |-> CardDir(ChildFrame(Top)), depth |-> ChildFrame(Top).depth,
                  from |-> Top.depth]}]
  /\ UNCHANGED <<argv, env, api, phase, pending, disk, issued, stdout, exitCode, faults>>

\* return { card, children: downloadedChildren } to the children loop of the parent
ReturnToParent ==
  /\ Running
  /\ Top.pc = "return" /\ Len(stack) > 1
  /\ LET parent == stack[Len(stack) - 1]
         joined == [parent EXCEPT !.downloaded = PushChild(@, ResultOf(Top))]
     IN stack' = SetTop(Front(stack), NextChild(joined))
  /\ hist' = [hist EXCEPT !.returned = @ \cup {CardDir(Top)},
                          !.results = @ \cup {<<CardDir(Top), ResultOf(Top)>>}]
  /\ UNCHANGED <<argv, env, api, phase, pending, disk, issued, stdout, exitCode, faults>>

\* the root call returns: console.log('Recursive download completed!'); process.exit(0)
\* the single card path reaches the end of the script: exit code 0
Finish ==
  /\ Running
  /\ Top.pc = "return" /\ Len(stack) = 1
  /\ Exit(0)
  /\ hist' = IF Top.ctx = "rec"
             THEN [hist EXCEPT !.returned = @ \cup {CardDir(Top)},
                               !.results = @ \cup {<<CardDir(Top), ResultOf(Top)>>},
                               !.rootResult = <<ResultOf(Top)>>]
             ELSE hist
  /\ UNCHANGED <<argv, env, api, pending, disk, issued, stdout, faults>>

\* ------------------------------------------------------------- resource creators
\* a creator is called: the argument checks throw, or the POST is prepared
CreatorCall ==
  /\ phase = "start" /\ argv.mode = "create"
  /\ IF CreatorError(argv) # ""
     THEN /\ phase' = "threw"
          /\ stack' = <<>>
          /\ hist' = [hist EXCEPT !.libError = <<ValidationError(CreatorError(argv))>>]
     ELSE /\ phase' = "running"
          /\ stack' = <<At(NewFrame("create", 0, 0, 0, <<>>, FALSE, TokenOrEnv(argv.token)),
                           "post")>>
          /\ hist' = hist
  /\ UNCHANGED <<argv, env, api, pending, disk, issued, stdout, exitCode, faults>>

\* (variant: every creator tries /latest after a failed POST)
RetriesOnLatestAlways(f) == f.pc = "post"
\* createSpace only: if (apiBase.endsWith('/v1')) { ... axios.post(fallbackUrl, ...) }
RetriesOnLatest(f) ==
  f.pc = "post" /\ argv.fn = "createSpace" /\ EndsWithV1(BaseOrEnv(argv.apiBase))

\* what a creator returns: the response of the POST
Created(op) == [created |-> argv.fn, url |-> op.path, title |-> argv.name]

\* const response = await axios.post(url, payload, { headers })
PostResponse ==
  \E op \in pending, ok \in BOOLEAN :
    /\ op.kind = "post" /\ Awaited(op)
    /\ ok \/ faults < MaxPostFaults
    /\ pending' = pending \ {op}
    /\ faults' = IF ok THEN faults ELSE faults + 1
    /\ IF ok
       THEN /\ phase' = "returned"
            /\ stack' = <<>>
            /\ hist' = [hist EXCEPT !.libResult = <<Created(op)>>]
       ELSE IF RetriesOnLatest(Top)
       THEN /\ phase' = phase
            /\ stack' = SetTop(stack, At(Top, "postFallback"))
            /\ hist' = [hist EXCEPT !.failed = @ \cup {op}]
       ELSE /\ phase' = "threw"
            /\ stack' = <<>>
            /\ hist' = [hist EXCEPT !.failed = @ \cup {op}, !.libError = <<op>>]
    /\ UNCHANGED <<argv, env, api, disk, issued, stdout, exitCode>>

\* ------------------------------------------------------------- specification
Next ==
  \/ CreatorCall
  \/ PostResponse
  \/ CliMissingCard
  \/ CliParseFails
  \/ CliStdoutOnly
  \/ CliRecursive
  \/ CliSingle
  \/ LibCall
  \/ Issue
  \/ CardResponse
  \/ CommentsResponse
  \/ ChildrenResponse
  \/ MkdirDone
  \/ WriteDone
  \/ FileResponse
  \/ PipeDone
  \/ CallChild
  \/ ReturnToParent
  \/ Finish

Spec == Init /\ [][Next]_vars

\* The event loop runs whatever is runnable: an issued operation completes (with
\* success or failure) and a suspended caller is resumed.
FairSpec == Spec /\ WF_vars(Next)

\* the same program when the API names attachments '../..' and the like
TraversalInit == Start(NamePrefixes)
TraversalSpec == TraversalInit /\ [][Next]_vars

Terminated == phase \in {"exited", "returned", "threw"}

\* a frame suspended on a transfer that will never settle
Hung == Running /\ Top.waiting /\ pending = {}

\* ------------------------------------------------------------- the card tree
\* the children the API lists for a card (none while the list was never returned)
Kids(c) == IF api.kids[c] = <<>> THEN <<>> ELSE api.kids[c][1]

\* the nodes of the tree at a depth: the paths of card ids from the root card
RECURSIVE Level(_)
Level(d) ==
  IF d = 0 THEN {<<RootId>>}
  ELSE {Append(q, k) : q \in Level(d - 1), k \in CardIds} \cap
       {q \in Seq(CardIds) : Len(q) = d + 1 /\ q[d + 1] \in Range(Kids(q[d]))
                              /\ Front(q) \in Level(d - 1)}

RootOutputDir == IF argv.outputDir THEN GivenOutputDir ELSE DefaultOutputDir

\* <outputDir>/<root>/children/<id>/children/<id>...
RECURSIVE DirOf(_)
DirOf(q) ==
  IF Len(q) = 1 THEN Join(RootOutputDir, IdName(q[1]))
  ELSE Join(Join(DirOf(Front(q)), "children"), IdName(Last(q)))

HasCardFiles(dir) == {Join(dir, "card.md"), Join(dir, "card.json")} \subseteq disk

RecursiveRun == argv.mode = "cli" /\ argv.recursive /\ ~argv.stdoutOnly
CleanExit == phase = "exited" /\ exitCode = 0

\* ------------------------------------------------------------- claims

\* C1: after a recursive download in which no request and no write failed, the
\* nodes of the card tree that have a card directory with card.md and card.json
\* are exactly the nodes at depth <= maxDepth: each of them has both files, no
\* node deeper than maxDepth has a directory, and no other card.md exists.
C1_ExactlyNodesWithinDepth ==
  (RecursiveRun /\ CleanExit /\ faults = 0) =>
     /\ \A d \in 0..(argv.maxDepth + 1) : \A q \in Level(d) :
          IF d <= argv.maxDepth THEN HasCardFiles(DirOf(q)) ELSE DirOf(q) \notin disk
     /\ \A path \in disk :
          Last(path) \in {"card.md", "card.json"} =>
             \E d \in 0..argv.maxDepth : \E q \in Level(d) : Front(path) = DirOf(q)

\* a finished fault-free recursive download of a tree deeper than maxDepth = 1
C1_Witness ==
  /\ RecursiveRun /\ CleanExit /\ faults = 0
  /\ argv.maxDepth = 1
  /\ Cardinality(Level(1)) = 2
  /\ Level(2) # {}

\* C2: the recursion is bounded by the depth counter: every recursive call is made
\* with the caller's depth plus one and with a depth of at most maxDepth, the call
\* stack mirrors that, a call is only ever made for a member of the caller's
\* non-empty children list; and every run of the tool ends (or is suspended on an
\* awaited operation that never settles).
C2_DepthInvariant ==
  /\ \A c \in hist.calls : c.depth = c.from + 1 /\ c.depth <= argv.maxDepth
  /\ \A k \in 1..Len(stack) :
       stack[k].ctx = "rec" =>
         /\ stack[k].depth = k - 1
         /\ stack[k].depth <= stack[k].maxDepth
         /\ k > 1 => /\ stack[k - 1].children # <<>>
                     /\ stack[k - 1].i \in 1..Len(stack[k - 1].children)
                     /\ stack[k].cardId = stack[k - 1].children[stack[k - 1].i]

C3_ChildFailureContained ==
  \A d \in 1..MaxDepthOpt : \A q \in Level(d) :
    DirOf(q) \in hist.threw =>
      /\ DirOf(Front(q)) \notin hist.threw
      /\ exitCode # 1
      /\ \/ DirOf(Front(q)) \in hist.returned
         \/ Running /\ Len(stack) >= d /\ CardDir(stack[d]) = DirOf(Front(q))
      /\ phase = "exited" =>
           /\ DirOf(Front(q)) \in hist.returned
           /\ \A k \in Range(Kids(q[d])) :
                LET sib == DirOf(Append(Front(q), k)) IN
                /\ sib \in hist.returned \cup hist.threw
                /\ (faults <= 1 /\ sib # DirOf(q)) =>
                     sib \in hist.returned /\ HasCardFiles(sib)

\* the first of two children failed, the second was downloaded, the run ended
C3_Witness ==
  /\ RecursiveRun /\ CleanExit
  /\ Len(Kids(RootId)) = 2
  /\ DirOf(<<RootId, Kids(RootId)[1]>>) \in hist.threw
  /\ DirOf(<<RootId, Kids(RootId)[2]>>) \in hist.returned
  /\ HasCardFiles(DirOf(<<RootId, Kids(RootId)[2]>>))

\* C4: once the download of an attachment has failed, the run still goes through
\* the remaining attachments and the children and ends successfully (exit code 0);
\* in the recursive downloader and on the single card path.
C4_AttachmentFailureDoesNotAbort ==
  (argv.mode = "cli" /\ hist.fileFailed # {}) ~> CleanExit

\* C5: at most one request or write is outstanding at any moment and it is the one
\* the innermost call awaits; and an operation for child i+1 of a card (or for any
\* of its descendants) has been issued only if the call for child i has returned
\* or failed.
C5_OneAtATime ==
  /\ Cardinality(pending) <= 1
  /\ \A op \in pending :
       Awaited(op) /\ (argv.mode \in {"cli", "lib"} => IsPrefix(CardDir(Top), op.path))
  /\ RecursiveRun =>
       \A d \in 0..(MaxDepthOpt - 1) : \A p \in Level(d) :
         \A j \in 2..Len(Kids(Last(p))) :
           (\E op \in issued : IsPrefix(DirOf(Append(p, Kids(Last(p))[j])), op.path)) =>
              DirOf(Append(p, Kids(Last(p))[j - 1])) \in hist.returned \cup hist.threw

\* an operation of the second child is outstanding; the first child, which has a
\* downloaded child of its own, has returned
C5_Witness ==
  /\ RecursiveRun
  /\ Len(Kids(RootId)) = 2
  /\ \E op \in pending : IsPrefix(DirOf(<<RootId, Kids(RootId)[2]>>), op.path)
  /\ DirOf(<<RootId, Kids(RootId)[1]>>) \in hist.returned
  /\ \E q \in Level(2) : q[2] = Kids(RootId)[1] /\ DirOf(q) \in hist.returned

\* C6: the children list a call of downloadCardRecursive builds and returns holds,
\* in the order of the fetched children list, exactly the results of the children
\* whose call returned (a child whose call failed is absent), each entry being the
\* value that child's call returned; a call at depth = maxDepth has an empty list.
ChildIds(list) == [k \in 1..Len(list) |-> list[k].card]

C6_ReturnedChildren ==
  /\ \A k \in 1..Len(stack) :
       LET f == stack[k]
           dirOfChild(c) == Join(ChildrenDir(f), IdName(c))
       IN (f.ctx = "rec" /\ f.card # NoCard) =>
            /\ ChildIds(f.downloaded) =
                 SelectSeq(f.children, LAMBDA c : dirOfChild(c) \in hist.returned)
            /\ \A x \in Range(f.downloaded) : <<dirOfChild(x.card), x>> \in hist.results
            /\ f.depth = f.maxDepth => f.downloaded = <<>>
  /\ \A res \in hist.results :
       /\ \A x \in Range(res[2].children) :
            /\ <<Join(Join(res[1], "children"), IdName(x.card)), x>> \in hist.results
            /\ Join(Join(res[1], "children"), IdName(x.card)) \notin hist.threw
       /\ Len(res[1]) = Len(RootOutputDir) + 1 + 2 * argv.maxDepth => res[2].children = <<>>
  /\ (RecursiveRun /\ CleanExit) =>
       /\ hist.rootResult # <<>>
       /\ hist.rootResult[1].card = RootId
       /\ ChildIds(hist.rootResult[1].children) =
            IF argv.maxDepth = 0 THEN <<>>
            ELSE SelectSeq(Kids(RootId),
                           LAMBDA c : DirOf(<<RootId, c>>) \in hist.returned)

\* of two children the first failed: the root's result holds the second only
C6_Witness ==
  /\ RecursiveRun /\ CleanExit
  /\ Len(Kids(RootId)) = 2
  /\ DirOf(<<RootId, Kids(RootId)[1]>>) \in hist.threw
  /\ ChildIds(hist.rootResult[1].children) = <<Kids(RootId)[2]>>

\* C7 (as claimed): a library call of downloadCard hands every failed API request,
\* of the card, of the comments or of the children, to its caller as the original
\* error object.
C7_EveryApiFailurePropagates ==
  (argv.mode = "lib" /\ phase \in {"returned", "threw"}) =>
     \A op \in hist.failed :
       op.kind \in {"getCard", "getComments", "getChildren"} =>
          phase = "threw" /\ hist.libError = <<op>>

\* C7 (amended): a library call of downloadCard hands a failed card request to its
\* caller as the original error object and throws for nothing else but a rejected
\* argument; a failed comments or children request is swallowed: the call returns
\* with an empty comments list, respectively an empty children list.
C7_OnlyCardFailurePropagates ==
  argv.mode = "lib" =>
    /\ \A op \in hist.failed :
         /\ op.kind \in {"getCard", "getComments", "getChildren"}
         /\ op.kind = "getCard" => phase = "threw" /\ hist.libError = <<op>>
    /\ phase = "threw" =>
         /\ hist.libError # <<>>
         /\ \/ hist.libError[1] \in hist.failed /\ hist.libError[1].kind = "getCard"
            \/ hist.libError[1] \in {ValidationError("cardId is required"),
                  ValidationError("Set environment variable KAITEN_API_BASE_URL")}
    /\ phase = "returned" =>
         /\ hist.libResult # <<>>
         /\ \A op \in hist.failed :
              /\ op.kind = "getComments" => hist.libResult[1].comments = 0
              /\ op.kind = "getChildren" => hist.libResult[1].children = <<>>

\* the card request of a library call failed and the caller got the error
C7_Witness ==
  /\ argv.mode = "lib" /\ phase = "threw"
  /\ hist.libError # <<>>
  /\ hist.libError[1].kind = "getCard"
  /\ hist.libError[1] \in hist.failed

\* an operation of the card the tool was started for (not of a card downloaded
\* from a children loop)
IsRootOp(op) == "children" \notin Range(Front(op.path))

CliRejectsInput == argv.card = "none" \/ ~ParseCardInput(argv.card, env.apiBase).ok

MarkdownOfRoot(incl) ==
  RenderMarkdown(api.card[RootId][1],
                 IF \E op \in hist.failed : op.kind = "getComments" THEN 0
                 ELSE api.comments[RootId],
                 IF incl /\ api.card[RootId][1].cc THEN Kids(RootId) ELSE <<>>)

\* C9: with --stdout-only the CLI prints, once, exactly the markdown downloadCard
\* returns for the card (called as the CLI calls it: includeChildren = --recursive),
\* and it creates no directory, writes no file, requests no attachment and
\* downloads no child card: its only requests are the card, its comments and,
\* with --recursive, its children list.
C9_StdoutOnly ==
  /\ (argv.mode = "cli" /\ argv.stdoutOnly) =>
       /\ disk = {}
       /\ hist.calls = {}
       /\ \A op \in issued :
            /\ op.card = RootId /\ IsRootOp(op)
            /\ op.kind \in {"getCard", "getComments", "getChildren"}
            /\ op.kind = "getChildren" => argv.recursive
       /\ stdout # <<>> => CleanExit
       /\ CleanExit => stdout = <<MarkdownOfRoot(argv.recursive)>>
  /\ (argv.mode = "lib" /\ phase = "returned") =>
       hist.libResult[1].markdown = MarkdownOfRoot(argv.recursive)

\* --recursive --stdout-only on a card with children: the markdown was printed
C9_Witness ==
  /\ argv.mode = "cli" /\ argv.stdoutOnly /\ argv.recursive
  /\ CleanExit
  /\ Len(stdout) = 1 /\ stdout[1].children # <<>>
  /\ disk = {}

\* C10: a run of the CLI with --skip-files-download issues no attachment request
\* and writes no attachment, in single card mode and in recursive mode.
C10_SkipFilesDownload ==
  (argv.mode = "cli" /\ argv.skipFilesDownload) =>
     /\ \A op \in issued : op.kind \notin {"getFile", "pipe"}
     /\ hist.fileDone = {}

\* ------------------------------------------------------------- parseCardInput alone
\* One call of parseCardInput on an input string, with KAITEN_API_BASE_URL set or
\* not.  The call either returns { cardId, apiBase } or throws.
Schemes == {"https", "HTTPS", "http"}
HostNames == {"company.kaiten.ru", "Company.Kaiten.ru"}
Ports == {"", "443", "8443"}
Paths == UNION {[1..n -> Segments] : n \in 1..MaxSegs}
SamplePaths == {<<"12345">>, <<"space", "12345", "boards", "card", "12345">>, <<"abc">>}

ParseInputs ==
  {TextInput(t, pad) : t \in Texts, pad \in BOOLEAN}
  \cup {UrlInput(sch, n, prt, segs) : sch \in Schemes, n \in HostNames, prt \in Ports,
                                      segs \in SamplePaths}
  \cup {UrlInput("https", "company.kaiten.ru", "", segs) : segs \in Paths}

ParseInit ==
  /\ \E i \in ParseInputs : argv = [mode |-> "parse", input |-> i]
  /\ env \in {[apiBase |-> b] : b \in BOOLEAN}
  /\ api = <<>>
  /\ phase = "start"
  /\ stack = <<>>
  /\ pending = {}
  /\ disk = {}
  /\ issued = {}
  /\ stdout = <<>>
  /\ exitCode = -1
  /\ faults = 0
  /\ hist = [parsed |-> <<>>]

ParseCall ==
  /\ phase = "start" /\ argv.mode = "parse"
  /\ LET r == parseCardInput(argv.input, env.apiBase)
     IN /\ hist' = [parsed |-> <<r>>]
        /\ phase' = IF r.ok THEN "returned" ELSE "threw"
  /\ UNCHANGED <<argv, env, api, stack, pending, disk, issued, stdout, exitCode, faults>>

ParseNext == ParseCall

ParseSpec == ParseInit /\ [][ParseNext]_vars

\* the two documented URL shapes
IsSimpleShape(segs) == Len(segs) = 1 /\ IsDigits(segs[1])
IsBoardShape(segs) ==
  /\ Len(segs) = 5
  /\ segs[1] = "space" /\ segs[3] = "boards" /\ segs[4] = "card"
  /\ IsDigits(segs[5])

ParseDone == argv.mode = "parse" /\ phase # "start"

\* C11: parseCardInput on a bare numeric input (blanks around it or not) with no
\* KAITEN_API_BASE_URL throws the configuration error; a run of the CLI with such
\* an argument issues no request at all and exits with code 1.
C11_BareIdNeedsApiBase ==
  /\ \A t \in DigitTokens, pad \in BOOLEAN :
       parseCardInput(TextInput(t, pad), FALSE) =
         ParseError("Set environment variable KAITEN_API_BASE_URL")
  /\ (argv.mode = "cli" /\ argv.card = "id" /\ ~env.apiBase) =>
       /\ CardInputOf(argv.card).kind = "text" /\ IsDigits(CardInputOf(argv.card).text)
       /\ issued = {} /\ pending = {} /\ stack = <<>>
       /\ phase \in {"start", "exited"}
       /\ phase = "exited" => exitCode = 1

\* the CLI was given a bare id with no base URL configured, and has exited
C11_Witness ==
  /\ argv.mode = "cli" /\ argv.card = "id" /\ ~env.apiBase
  /\ phase = "exited" /\ exitCode = 1 /\ issued = {}

\* C12 (as claimed): for every URL of shape /space/<id>/boards/card/<cardId> or
\* /<cardId> with a digits-only cardId, parseCardInput returns that cardId and the
\* URL's scheme and host followed by /api/v1, whatever KAITEN_API_BASE_URL is.
C12_SupportedShapesAsClaimed ==
  (ParseDone /\ argv.input.kind = "url"
     /\ (IsSimpleShape(argv.input.segs) \/ IsBoardShape(argv.input.segs))) =>
     hist.parsed[1] = Parsed(Last(argv.input.segs),
                             <<UrlProtocol(argv.input)>> \o UrlHost(argv.input) \o <<"api/v1">>)

\* C12 (amended): the same, for the board shape only when the <id> segment is not
\* the word 'card' (the card id is taken after the first 'card' segment); scheme
\* and host are those of the parsed URL: lower case, default port dropped.
C12_SupportedShapes ==
  (ParseDone /\ argv.input.kind = "url"
     /\ \/ IsSimpleShape(argv.input.segs)
        \/ IsBoardShape(argv.input.segs) /\ argv.input.segs[2] # "card") =>
     hist.parsed[1] = Parsed(Last(argv.input.segs),
                             <<UrlProtocol(argv.input)>> \o UrlHost(argv.input) \o <<"api/v1">>)

\* a board card URL parsed while KAITEN_API_BASE_URL is set
C12_Witness ==
  /\ ParseDone /\ argv.input.kind = "url"
  /\ IsBoardShape(argv.input.segs)
  /\ argv.input.scheme = "HTTPS" /\ argv.input.port = "443"
  /\ env.apiBase
  /\ hist.parsed[1].ok
  /\ hist.parsed[1].apiBase = <<"https", "company.kaiten.ru", "api/v1">>

\* the bare numeric input
IsBareId(input) == input.kind = "text" /\ IsDigits(input.text)

Accepted(input, envBase) ==
  IF input.kind = "text" THEN IsDigits(input.text) /\ envBase
  ELSE \/ Len(input.segs) = 1 /\ IsDigits(input.segs[1])
       \/ /\ \E k \in 1..(Len(input.segs) - 2) :
               input.segs[k] = "boards" /\ input.segs[k + 1] = "card"
          /\ \E j \in 1..(Len(input.segs) - 1) :
               /\ input.segs[j] = "card" /\ "card" \notin Range(SubSeq(input.segs, 1, j - 1))
               /\ IsDigits(input.segs[j + 1])

CreatorRun == argv.mode = "create"
Posts == {op \in issued : op.kind = "post"}

\* a required argument of the creator, or the API base, is missing or empty
MissingRequired(a) ==
  \/ a.name = ""
  \/ a.fn # "createSpace" /\ a.parentId = ""
  \/ a.apiBase = <<>>
  \/ a.apiBase = <<"none">> /\ ~env.apiBase

RequiredMessages ==
  {"name is required", "title is required", "spaceId is required", "boardId is required",
   "Set environment variable KAITEN_API_BASE_URL"}

\* C14: a creator called with a required argument (name/title, spaceId, boardId)
\* or the API base missing or empty throws an error that names what is missing
\* and issues no HTTP request; and it throws such an error in no other case.
C14_CreatorsValidateFirst ==
  CreatorRun =>
    /\ MissingRequired(argv) =>
         /\ issued = {} /\ pending = {} /\ stack = <<>>
         /\ phase \in {"start", "threw"}
         /\ phase = "threw" =>
              /\ hist.libError # <<>>
              /\ hist.libError[1].kind \in RequiredMessages
              /\ hist.libError[1].kind = "name is required" => argv.name = ""
              /\ hist.libError[1].kind = "title is required" =>
                   argv.name = "" /\ argv.fn = "createColumn"
              /\ hist.libError[1].kind \in {"spaceId is required", "boardId is required"} =>
                   argv.parentId = ""
              /\ hist.libError[1].kind = "Set environment variable KAITEN_API_BASE_URL" =>
                   BaseOrEnv(argv.apiBase) = <<>>
    /\ (hist.libError # <<>> /\ hist.libError[1].kind \in RequiredMessages) =>
         MissingRequired(argv)

\* createColumn was called without a title: it threw and sent nothing
C14_Witness ==
  /\ CreatorRun /\ argv.fn = "createColumn"
  /\ argv.name = "" /\ argv.parentId # "" /\ BaseOrEnv(argv.apiBase) # <<>>
  /\ phase = "threw" /\ issued = {}
  /\ hist.libError[1].kind = "title is required"

\* C15 (as claimed): a call of a creator issues at most one POST, whether the
\* request succeeds or fails.
C15_AtMostOnePostAsClaimed ==
  CreatorRun => Cardinality(Posts) <= 1

\* C15 (amended): createBoard, createColumn and createCard issue at most one POST;
\* createSpace issues a second POST, to the same path under /latest, exactly after
\* its first POST failed and the API base ends with /v1, and never a third.
C15_AtMostOnePost ==
  CreatorRun =>
    /\ Cardinality(Posts) <= 2
    /\ \A op \in Posts : op.payload = Payload(argv)
    /\ \A op \in Posts :
         op.idx = 2 =>
           /\ argv.fn = "createSpace"
           /\ EndsWithV1(BaseOrEnv(argv.apiBase))
           /\ op.path = ToLatest(BaseOrEnv(argv.apiBase)) \o <<"spaces">>
           /\ \E first \in Posts : first.idx = 1 /\ first \in hist.failed
    /\ \A op \in Posts : op.idx \in {1, 2}
    /\ (phase = "threw" /\ hist.failed # {} /\ argv.fn = "createSpace"
          /\ EndsWithV1(BaseOrEnv(argv.apiBase))) => Cardinality(Posts) = 2

\* createSpace returned after its first POST failed and the second succeeded
C15_Witness ==
  /\ CreatorRun /\ argv.fn = "createSpace"
  /\ phase = "returned"
  /\ Cardinality(Posts) = 2
  /\ Cardinality(Posts \cap hist.failed) = 1

RunToken == IF argv.token = "none" THEN env.token ELSE argv.token

C17_BearerToken ==
  argv.mode \in {"cli", "lib", "create"} =>
    /\ \A op \in issued :
         IF op.kind \in HttpKinds
         THEN op.auth = (IF RunToken = "" THEN <<>> ELSE <<"Bearer", RunToken>>)
         ELSE op.auth = <<>>
    /\ \A k \in 1..Len(stack) : stack[k].token = RunToken

\* a card at depth 1 of a recursive download was requested with the --token value
C17_Witness ==
  /\ RecursiveRun /\ argv.token = "cli-token"
  /\ \E op \in issued :
       /\ op.kind = "getCard" /\ ~IsRootOp(op)
       /\ op.auth = <<"Bearer", "cli-token">>

\* ------------------------------------------------------------- the markdown renderer
\* The markdown document is modelled line by line: every '\n' the code appends
\* ends a line.  A line is its kind (k), what it names and the data it shows.
MaxItems == 2            \* longest flat item list of a card
MaxNestedItems == 1      \* longest item list of one grouped checklist
MaxChecklists == 1       \* longest grouped checklist array
MaxStamp == 3            \* creation timestamps 1..MaxStamp
MaxRenderComments == 3   \* longest comments array handed to the renderer

\* an optional property of a JSON object: undefined, or a value (an empty array
\* is a value, and is truthy)
Undefined == [set |-> FALSE, val |-> <<>>]
Some(v) == [set |-> TRUE, val |-> v]
\* a || b on array-valued properties
OrElse(a, b) == IF a.set THEN a ELSE b

Line(k, what, data) == [k |-> k, what |-> what, data |-> data]
Blank == Line("blank", "", <<>>)
H1(card) == Line("h1", "title", <<card.id>>)
H2(name) == Line("h2", name, <<>>)
H3(what, data) == Line("h3", what, data)
Meta(what, data) == Line("meta", what, data)

\* lines 192-225: the optional metadata bullets, in the order of the code.
\* card.meta holds the optional objects of the card: owner (the name parts it
\* has), board (with or without its spaces array), column, lane, type, status
\* (with or without a name) and estimate.
MaxSpaces == 2           \* longest board.spaces array
MaxMembers == 3          \* longest members array

MetaFields == <<"Owner", "Location", "Type", "Status", "Estimate">>
OwnerParts == <<"username", "full_name", "email">>

NoBoard == [set |-> FALSE, spaces |-> [set |-> FALSE, val |-> <<>>]]
NoOwner == [set |-> FALSE, username |-> FALSE, full_name |-> FALSE, email |-> FALSE]
NoStatus == [set |-> FALSE, name |-> FALSE]
Board(spaces) == [set |-> TRUE, spaces |-> spaces]

\* line 192
HasOwner(card) == card.meta.owner.set
\* lines 193-203
OwnerLine(card) ==
  LET Has(part) == card.meta.owner[part]
  IN <<Meta("Owner", SelectSeq(OwnerParts, Has))>>

\* line 207
HasLocation(card) ==
  card.meta.board.set /\ card.meta.board.spaces.set /\ card.meta.column /\ card.meta.lane
\* line 208: spaces.filter(s => s.primary_path)
AllSpaces(spaces) == spaces

PrimarySpaces(spaces) ==
  LET IsPrimary(sp) == sp.primary_path
  IN SelectSeq(spaces, IsPrimary)
\* lines 208-217: spaces / board / column (lane)
LocationLine(card) ==
  LET spaces == PrimarySpaces(card.meta.board.spaces.val)
  IN <<Meta("Location", [k \in 1..Len(spaces) |-> spaces[k].id] \o <<"board", "column", "lane">>)>>

\* line 220
HasTypeAlways(card) == TRUE

HasType(card) == card.meta.type
\* line 224: card.status?.name
HasStatusName(card) == card.meta.status.set /\ card.meta.status.name
\* line 225: card.estimate != null
HasEstimate(card) == card.meta.estimate

MetaLines(card) ==
  (IF HasOwner(card) THEN OwnerLine(card) ELSE <<>>)
  \o (IF HasLocation(card) THEN LocationLine(card) ELSE <<>>)
  \o (IF HasType(card) THEN <<Meta("Type", <<>>)>> ELSE <<>>)
  \o (IF HasStatusName(card) THEN <<Meta("Status", <<>>)>> ELSE <<>>)
  \o (IF HasEstimate(card) THEN <<Meta("Estimate", <<>>)>> ELSE <<>>)

\* A property read on undefined throws a TypeError.  The reads of lines 194-221
\* that go through an optional object: card.owner.username (194-201),
\* card.board.spaces.filter, card.board.title, card.column.title,
\* card.lane.title (208-211), card.type.letter (221).
PropertyReads(card) ==
  (IF HasOwner(card) THEN {"owner"} ELSE {})
  \cup (IF HasLocation(card) THEN {"board", "board.spaces", "column", "lane"} ELSE {})
  \cup (IF HasType(card) THEN {"type"} ELSE {})
DefinedObjects(card) ==
  (IF card.meta.owner.set THEN {"owner"} ELSE {})
  \cup (IF card.meta.board.set THEN {"board"} ELSE {})
  \cup (IF card.meta.board.set /\ card.meta.board.spaces.set THEN {"board.spaces"} ELSE {})
  \cup (IF card.meta.column THEN {"column"} ELSE {})
  \cup (IF card.meta.lane THEN {"lane"} ELSE {})
  \cup (IF card.meta.type THEN {"type"} ELSE {})
TypeErrors(card) == PropertyReads(card) \ DefinedObjects(card)

ChildrenLine(card) ==
  IF card.children_count > 0
  THEN <<Meta("Children", <<card.children_done, card.children_count>>)>>
  ELSE <<>>

\* lines 238-242: responsible members (type 2) first, the order otherwise kept
IsResponsible(m) == m.type = 2
IsOther(m) == m.type # 2
CompareMembers(a, b) ==
  IF IsResponsible(a) /\ IsOther(b) THEN -1
  ELSE IF IsOther(a) /\ IsResponsible(b) THEN 1 ELSE 0

RECURSIVE InsertMember(_, _)
InsertMember(m, sorted) ==
  IF sorted = <<>> THEN <<m>>
  ELSE IF CompareMembers(Head(sorted), m) <= 0
       THEN <<Head(sorted)>> \o InsertMember(m, Tail(sorted))
       ELSE <<m>> \o sorted

RECURSIVE SortMembers(_)
SortMembers(members) ==
  IF members = <<>> THEN <<>>
  ELSE InsertMember(Last(members), SortMembers(Front(members)))

UnsortedMembers(members) == members

SortedMembers(members) == SortMembers(members)

\* lines 244-262: memberInfo, with ' (responsible)' for type 2
MemberInfo(m) == [id |-> m.id, responsible |-> IsResponsible(m)]

MembersLine(card) ==
  IF card.members.set /\ Len(card.members.val) > 0
  THEN LET sortedMembers == SortedMembers(card.members.val)
       IN <<Meta("Members", [k \in 1..Len(sortedMembers) |-> MemberInfo(sortedMembers[k])])>>
  ELSE <<>>

\* lines 267-270
DescriptionLines(card) ==
  <<Blank, H2("Description"), Blank>>
  \o (IF card.description THEN <<Line("text", "description", <<>>)>> ELSE <<Blank>>)

\* lines 274, 275 and 287: the first property that is present wins
ChecklistsOf(card) == OrElse(card.checklists, OrElse(card.check_lists, Some(<<>>))).val
ChecklistItemsOf(card) ==
  OrElse(card.checklist_items, OrElse(card.checklistItems, Some(<<>>))).val
ItemsOf(checklist) ==
  OrElse(checklist.items, OrElse(checklist.checklist_items, Some(<<>>))).val

\* lines 290 and 323
CheckboxCheckedOnly(item) == IF item.checked THEN "[x]" ELSE "[ ]"

Checkbox(item) ==
  IF item.checked \/ item.completed \/ item.is_checked THEN "[x]" ELSE "[ ]"

Bullet(item) == Line("bullet", Checkbox(item), <<item>>)

Bullets(items) == [k \in 1..Len(items) |-> Bullet(items[k])]

\* lines 282-313: one grouped checklist
ChecklistLines(checklist) ==
  (IF checklist.named THEN <<H3("checklist", <<>>), Blank>> ELSE <<>>)
  \o Bullets(ItemsOf(checklist)) \o <<Blank>>

RECURSIVE GroupedLines(_)
GroupedLines(checklists) ==
  IF checklists = <<>> THEN <<>>
  ELSE ChecklistLines(Head(checklists)) \o GroupedLines(Tail(checklists))

\* lines 317-345: the flat items
FlatLines(checklists, checklistItems) ==
  IF Len(checklistItems) > 0
  THEN (IF Len(checklists) = 0 THEN <<H3("Checklist", <<>>), Blank>> ELSE <<>>)
       \o Bullets(checklistItems) \o <<Blank>>
  ELSE <<>>

\* lines 277-346
ChecklistsSection(card) ==
  LET checklists == ChecklistsOf(card)
      checklistItems == ChecklistItemsOf(card)
  IN IF Len(checklists) > 0 \/ Len(checklistItems) > 0
     THEN <<Blank, H2("Checklists"), Blank>>
          \o GroupedLines(checklists) \o FlatLines(checklists, checklistItems)
     ELSE <<>>

\* lines 353-355: the comparator, and Array.prototype.sort (stable) on a copy
CompareCreatedOldestFirst(a, b) == a.created - b.created

CompareCreated(a, b) == b.created - a.created

RECURSIVE InsertComment(_, _)
InsertComment(c, sorted) ==
  IF sorted = <<>> THEN <<c>>
  ELSE IF CompareCreated(Head(sorted), c) <= 0
       THEN <<Head(sorted)>> \o InsertComment(c, Tail(sorted))
       ELSE <<c>> \o sorted

RECURSIVE SortedComments(_)
SortedComments(comments) ==
  IF comments = <<>> THEN <<>>
  ELSE InsertComment(Last(comments), SortedComments(Front(comments)))

\* line 353: [...comments].sort(...) sorts a copy, the fetched array stays as it is
SpreadSort(comments) == [sortedComments |-> SortedComments(comments), comments |-> comments]

\* lines 357-363
CommentLines(comment) ==
  <<H3("comment", <<comment>>), Blank, Line("text", "comment", <<comment.id>>), Blank>>

RECURSIVE CommentsLines(_)
CommentsLines(sorted) ==
  IF sorted = <<>> THEN <<>>
  ELSE CommentLines(Head(sorted)) \o CommentsLines(Tail(sorted))

\* lines 349-364
CommentsSection(comments) ==
  IF Len(comments) > 0
  THEN <<Blank, H2("Comments"), Blank>>
       \o CommentsLines(SpreadSort(comments).sortedComments)
  ELSE <<>>

\* line 367
HasFilesTruthy(card) == card.files.set

HasFiles(card) == card.files.set /\ Len(card.files.val) > 0

\* lines 369-384
FileLines(file) ==
  <<H3("file", <<file.id>>), Blank, Meta("Source URL", <<file.id>>), Meta("Size", <<file.id>>)>>
  \o (IF file.created THEN <<Meta("Created", <<file.id>>)>> ELSE <<>>)
  \o <<Blank, Line(IF file.image THEN "img" ELSE "link", "file", <<file.id>>), Blank>>

RECURSIVE FilesLines(_)
FilesLines(files) ==
  IF files = <<>> THEN <<>>
  ELSE FileLines(Head(files)) \o FilesLines(Tail(files))

\* lines 367-385 (the header has no empty line before it)
FilesSection(card) ==
  IF HasFiles(card) THEN <<H2("Files"), Blank>> \o FilesLines(card.files.val) ELSE <<>>

\* lines 181-186
ChildrenData(card, includeChildren, children) ==
  IF includeChildren /\ card.children_count > 0 THEN children ELSE <<>>

\* lines 388-412
ChildrenSection(childrenData) ==
  IF Len(childrenData) > 0
  THEN <<Blank, H2("Children Cards"), Blank>>
       \o [k \in 1..Len(childrenData) |-> Line("link", "child", <<childrenData[k].id>>)]
       \o <<Blank>>
  ELSE <<>>

\* lines 190-414: the document, and what downloadCard returns
Markdown(card, comments, childrenData) ==
  <<H1(card), Blank, Meta("ID", <<card.id>>)>>
  \o MetaLines(card) \o ChildrenLine(card) \o MembersLine(card)
  \o DescriptionLines(card)
  \o ChecklistsSection(card)
  \o CommentsSection(comments)
  \o FilesSection(card)
  \o ChildrenSection(childrenData)

DownloadCardResult(card, comments, includeChildren, children) ==
  LET childrenData == ChildrenData(card, includeChildren, children)
  IN [threw |-> TypeErrors(card) # {},
      card |-> card, markdown |-> Markdown(card, comments, childrenData),
      comments |-> SpreadSort(comments).comments, children |-> childrenData]

\* ------------------------------------------------------------- the renderer alone
\* One call of downloadCard whose requests all succeed: the card, the comments
\* and the children the API returns are the inputs, the returned object the
\* result.
Items == {[checked |-> c, completed |-> d, is_checked |-> e] :
            <<c, d, e>> \in {<<FALSE, FALSE, FALSE>>, <<TRUE, FALSE, FALSE>>,
                             <<FALSE, TRUE, FALSE>>, <<FALSE, FALSE, TRUE>>}}
ItemLists(n) == UNION {[1..m -> Items] : m \in 0..n}
Optional(S) == {Undefined} \cup {Some(v) : v \in S}

ChecklistInputs ==
  {[named |-> TRUE, items |-> i, checklist_items |-> j] :
     i \in Optional(ItemLists(MaxNestedItems)), j \in Optional(ItemLists(MaxNestedItems))}
GroupedInputs == Optional(UNION {[1..m -> ChecklistInputs] : m \in 0..MaxChecklists})
FlatInputs == Optional(ItemLists(MaxItems))

ItemDone == [checked |-> FALSE, completed |-> TRUE, is_checked |-> FALSE]
ItemOpen == [checked |-> FALSE, completed |-> FALSE, is_checked |-> FALSE]
SampleChecklist == [named |-> FALSE, items |-> Some(<<ItemDone>>), checklist_items |-> Undefined]

\* grouped and flat checklist data of a card: checklists, check_lists,
\* checklist_items, checklistItems
ChecklistData(g1, g2, f1, f2) ==
  [checklists |-> g1, check_lists |-> g2, checklist_items |-> f1, checklistItems |-> f2]
NoChecklistData == ChecklistData(Undefined, Undefined, Undefined, Undefined)
SampleChecklistData ==
  {NoChecklistData,
   ChecklistData(Some(<<SampleChecklist>>), Undefined, Undefined, Undefined),
   ChecklistData(Undefined, Undefined, Undefined, Some(<<ItemOpen, ItemDone>>)),
   ChecklistData(Some(<<>>), Undefined, Some(<<>>), Undefined)}

CommentArrays ==
  {[k \in 1..Len(stamps) |-> [id |-> k, created |-> stamps[k]]] :
     stamps \in UNION {[1..m -> 1..MaxStamp] : m \in 0..MaxRenderComments}}
ShortCommentArrays == {c \in CommentArrays : Len(c) <= 2}

FileInputs ==
  {Undefined, Some(<<>>),
   Some(<<[id |-> 1, created |-> TRUE, image |-> FALSE]>>),
   Some(<<[id |-> 1, created |-> FALSE, image |-> TRUE],
          [id |-> 2, created |-> TRUE, image |-> FALSE]>>)}
MemberTypes == {1, 2, 3}
MemberArrays ==
  {[k \in 1..Len(types) |-> [id |-> k, type |-> types[k]]] :
     types \in UNION {[1..m -> MemberTypes] : m \in 0..MaxMembers}}
SpaceArrays ==
  {[k \in 1..Len(flags) |-> [id |-> k, primary_path |-> flags[k]]] :
     flags \in UNION {[1..m -> BOOLEAN] : m \in 0..MaxSpaces}}
BoardInputs == {NoBoard, Board(Undefined)} \cup {Board(Some(sp)) : sp \in SpaceArrays}
OwnerInputs ==
  {NoOwner} \cup [set : {TRUE}, username : BOOLEAN, full_name : BOOLEAN, email : BOOLEAN]
StatusInputs == {NoStatus} \cup [set : {TRUE}, name : BOOLEAN]
MetaInputs ==
  [owner : OwnerInputs, board : BoardInputs,
   column : BOOLEAN, lane : BOOLEAN, type : BOOLEAN,
   status : StatusInputs, estimate : BOOLEAN]
NoMeta ==
  [owner |-> NoOwner, board |-> NoBoard, column |-> FALSE, lane |-> FALSE,
   type |-> FALSE, status |-> NoStatus, estimate |-> FALSE]
FullMeta ==
  [owner |-> [set |-> TRUE, username |-> TRUE, full_name |-> TRUE, email |-> TRUE],
   board |-> Board(Some(<<[id |-> 1, primary_path |-> TRUE]>>)),
   column |-> TRUE, lane |-> TRUE, type |-> TRUE,
   status |-> [set |-> TRUE, name |-> TRUE],
   estimate |-> TRUE]
ChildrenInputs == {<<>>, <<[id |-> 2]>>, <<[id |-> 3], [id |-> 2]>>}

\* the card object of a response
CardOf(meta, members, description, checklistData, files, children_count) ==
  [id |-> RootId, meta |-> meta, members |-> members, description |-> description,
   checklists |-> checklistData.checklists, check_lists |-> checklistData.check_lists,
   checklist_items |-> checklistData.checklist_items,
   checklistItems |-> checklistData.checklistItems,
   files |-> files, children_count |-> children_count, children_done |-> 0]

\* { id, title } and nothing else
BareCard == CardOf(NoMeta, Undefined, FALSE, NoChecklistData, Undefined, 0)

RenderInput(card, comments, includeChildren, children) ==
  [card |-> card, comments |-> comments, includeChildren |-> includeChildren,
   children |-> children]

\* cards that differ in their checklist data
ChecklistCards ==
  {CardOf(NoMeta, Undefined, FALSE, ChecklistData(g1, g2, f1, f2), Undefined, 0) :
     <<g1, g2, f1, f2>> \in
        (GroupedInputs \X GroupedInputs \X {Undefined} \X {Undefined, Some(<<ItemOpen>>)})
        \cup ({Undefined, Some(<<>>), Some(<<SampleChecklist>>)}
              \X {Undefined} \X FlatInputs \X FlatInputs)}
\* cards that differ in their metadata
MetaCards ==
  {CardOf(meta, Undefined, FALSE, NoChecklistData, Undefined, cc) :
     meta \in MetaInputs, cc \in 0..1}
\* cards that differ in their members
MemberCards ==
  {CardOf(meta, members, description, NoChecklistData, Undefined, 0) :
     meta \in {NoMeta, FullMeta}, members \in Optional(MemberArrays),
     description \in BOOLEAN}
\* cards that differ in the sections they have
SectionCards ==
  {CardOf(meta, Undefined, description, cl, files, cc) :
     meta \in {NoMeta, FullMeta}, description \in BOOLEAN,
     cl \in SampleChecklistData, files \in FileInputs, cc \in 0..2}

RenderInputs ==
  {RenderInput(card, <<>>, FALSE, <<>>) : card \in ChecklistCards \cup MetaCards \cup MemberCards}
  \cup {RenderInput(BareCard, comments, FALSE, <<>>) : comments \in CommentArrays}
  \cup {RenderInput(card, comments, incl, children) :
          card \in SectionCards, comments \in ShortCommentArrays,
          incl \in BOOLEAN, children \in ChildrenInputs}

RenderInit ==
  /\ \E i \in RenderInputs : argv = [mode |-> "render", input |-> i]
  /\ env = [apiBase |-> TRUE]
  /\ api = <<>>
  /\ phase = "start"
  /\ stack = <<>>
  /\ pending = {}
  /\ disk = {}
  /\ issued = {}
  /\ stdout = <<>>
  /\ exitCode = -1
  /\ faults = 0
  /\ hist = [result |-> <<>>]

RenderCall ==
  /\ phase = "start" /\ argv.mode = "render"
  /\ LET i == argv.input
     IN hist' = [result |-> <<DownloadCardResult(i.card, i.comments, i.includeChildren,
                                                i.children)>>]
  /\ phase' = IF TypeErrors(argv.input.card) # {} THEN "threw" ELSE "returned"
  /\ UNCHANGED <<argv, env, api, stack, pending, disk, issued, stdout, exitCode, faults>>

RenderNext == RenderCall

RenderSpec == RenderInit /\ [][RenderNext]_vars

RenderDone == argv.mode = "render" /\ phase = "returned"
RenderResult == hist.result[1]
\* the names of the section headers of the document, in the order they appear
SectionsOf(md) ==
  LET IsH2(l) == l.k = "h2"
      h == SelectSeq(md, IsH2)
  IN [k \in 1..Len(h) |-> h[k].what]

SectionOrder == <<"Description", "Checklists", "Comments", "Files", "Children Cards">>
InOrder(secs) ==
  LET Present(name) == name \in Range(secs)
  IN secs = SelectSeq(SectionOrder, Present)
NonEmpty(opt) == opt.set /\ Len(opt.val) > 0
\* the first section header of the document
FirstH2(md) == CHOOSE k \in 1..Len(md) : md[k].k = "h2" /\ \A j \in 1..(k - 1) : md[j].k # "h2"
NoOptionalFields(card) ==
  /\ card.meta = NoMeta /\ ~NonEmpty(card.members) /\ ~card.description
  /\ card.children_count = 0 /\ ~NonEmpty(card.files)
  /\ ~NonEmpty(card.checklists) /\ ~NonEmpty(card.check_lists)
  /\ ~NonEmpty(card.checklist_items) /\ ~NonEmpty(card.checklistItems)
BareDocument(card) ==
  <<H1(card), Blank, Meta("ID", <<card.id>>), Blank, H2("Description"), Blank, Blank>>

IsBullet(l) == l.k = "bullet"
BulletsOf(md) == SelectSeq(md, IsBullet)
SectionLines(md, name) ==
  LET starts == {k \in 1..Len(md) : md[k] = H2(name)}
  IN IF starts = {} THEN <<>>
     ELSE LET a == CHOOSE k \in starts : TRUE
              ends == {k \in (a + 1)..Len(md) : md[k].k = "h2"}
              b == IF ends = {} THEN Len(md) + 1
                   ELSE CHOOSE k \in ends : \A j \in ends : k <= j
          IN SubSeq(md, a + 1, b - 1)
IsChecked(item) == item.checked \/ item.completed \/ item.is_checked

RECURSIVE SumLen(_)
SumLen(lists) == IF lists = <<>> THEN 0 ELSE Len(Head(lists)) + SumLen(Tail(lists))
RECURSIVE Concat(_)
Concat(lists) == IF lists = <<>> THEN <<>> ELSE Head(lists) \o Concat(Tail(lists))

\* every item the card carries, under any of the property names
AllItemsOfChecklist(checklist) == checklist.items.val \o checklist.checklist_items.val
TotalItems(card) ==
  LET grouped == card.checklists.val \o card.check_lists.val
  IN SumLen([k \in 1..Len(grouped) |-> AllItemsOfChecklist(grouped[k])])
     + Len(card.checklist_items.val) + Len(card.checklistItems.val)

\* the items the renderer reads: of each pair of property names the first that
\* is present, an empty array included
FirstPresent(a, b) == IF a.set THEN a.val ELSE b.val
ItemsRead(card) ==
  LET grouped == FirstPresent(card.checklists, card.check_lists)
  IN Concat([k \in 1..Len(grouped) |->
               FirstPresent(grouped[k].items, grouped[k].checklist_items)])
     \o FirstPresent(card.checklist_items, card.checklistItems)

\* of each pair of property names at most one is present
OneNameEach(card) ==
  LET grouped == card.checklists.val \o card.check_lists.val
  IN /\ ~(card.checklists.set /\ card.check_lists.set)
     /\ ~(card.checklist_items.set /\ card.checklistItems.set)
     /\ \A k \in 1..Len(grouped) : ~(grouped[k].items.set /\ grouped[k].checklist_items.set)

IsCommentHeader(l) == l.k = "h3" /\ l.what = "comment"
CommentsShown(md) ==
  LET hs == SelectSeq(SectionLines(md, "Comments"), IsCommentHeader)
  IN [k \in 1..Len(hs) |-> hs[k].data[1]]

\* C20: for every comments array, the comments of the Comments section are in
\* non-increasing order of their creation timestamp, every fetched comment is
\* shown exactly once and nothing else is shown, and the comments array that
\* downloadCard returns is the fetched array in its original order.
C20_CommentsNewestFirst ==
  RenderDone =>
    LET comments == argv.input.comments
        shown == CommentsShown(RenderResult.markdown)
    IN /\ \A j, k \in 1..Len(shown) : j < k => shown[j].created >= shown[k].created
       /\ Len(shown) = Len(comments)
       /\ \A c \in Range(comments) : Cardinality({k \in 1..Len(shown) : shown[k] = c}) = 1
       /\ RenderResult.comments = comments

\* three comments fetched oldest, newest, middle: shown newest first, returned
\* as fetched
C20_Witness ==
  /\ RenderDone
  /\ Len(argv.input.comments) = 3
  /\ [k \in 1..3 |-> argv.input.comments[k].created] = <<1, 3, 2>>
  /\ [k \in 1..3 |-> CommentsShown(RenderResult.markdown)[k].id] = <<2, 3, 1>>
  /\ RenderResult.comments = argv.input.comments

RenderCalled == argv.mode = "render" /\ phase # "start"

\* C21: rendering never throws because an optional field is missing: for every
\* card, with any of owner (and its name parts), board (and its spaces), column,
\* lane, type, status (and its name), estimate, members, description, checklists,
\* files and children counters absent, and for any comments and children arrays,
\* no property of an undefined object is read and downloadCard returns a
\* markdown document.
C21_RenderNeverThrows ==
  RenderCalled =>
    /\ TypeErrors(argv.input.card) = {}
    /\ phase = "returned" /\ ~RenderResult.threw
    /\ Len(RenderResult.markdown) >= 7
    /\ RenderResult.markdown[1] = H1(argv.input.card)

\* a card whose owner has no name part, whose board has no spaces array, with
\* column and lane but no type, and a status without a name: rendered
C21_Witness ==
  /\ RenderDone
  /\ LET meta == argv.input.card.meta
     IN /\ meta.owner.set /\ ~meta.owner.username /\ ~meta.owner.full_name /\ ~meta.owner.email
        /\ meta.board.set /\ ~meta.board.spaces.set /\ meta.column /\ meta.lane
        /\ ~meta.type /\ meta.status.set /\ ~meta.status.name
  /\ Len(RenderResult.markdown) >= 7

\* the metadata bullets of a name in a document
MetaLinesOf(md, what) ==
  LET Is(l) == l.k = "meta" /\ l.what = what
  IN SelectSeq(md, Is)
\* ids of the primary_path spaces of a board, in the order of board.spaces
RECURSIVE PrimaryIds(_)
PrimaryIds(spaces) ==
  IF spaces = <<>> THEN <<>>
  ELSE (IF Head(spaces).primary_path THEN <<Head(spaces).id>> ELSE <<>>) \o PrimaryIds(Tail(spaces))

\* C22 (as claimed): the Location line is emitted exactly when the card has
\* board, column and lane, and then lists the primary_path spaces in their
\* original order before board / column (lane).
C22_LocationAsClaimed ==
  RenderDone =>
    LET meta == argv.input.card.meta
        loc == MetaLinesOf(RenderResult.markdown, "Location")
    IN /\ Len(loc) = (IF meta.board.set /\ meta.column /\ meta.lane THEN 1 ELSE 0)
       /\ Len(loc) = 1 =>
            loc[1].data = PrimaryIds(meta.board.spaces.val) \o <<"board", "column", "lane">>

\* C22 (amended): the Location line is emitted exactly when the card has board,
\* board.spaces (an array, empty or not), column and lane, and is skipped
\* otherwise; when emitted it is the only Location line, stands among the
\* metadata bullets, and lists only the spaces flagged primary_path, in their
\* original order, before board / column (lane).
C22_LocationNeedsSpaces ==
  RenderDone =>
    LET meta == argv.input.card.meta
        md == RenderResult.markdown
        loc == MetaLinesOf(md, "Location")
    IN /\ Len(loc) =
            (IF meta.board.set /\ meta.board.spaces.set /\ meta.column /\ meta.lane
             THEN 1 ELSE 0)
       /\ Len(loc) = 1 =>
            /\ loc[1].data = PrimaryIds(meta.board.spaces.val) \o <<"board", "column", "lane">>
            /\ \E k \in 4..(FirstH2(md) - 2) : md[k] = loc[1]

\* a board with a primary and a non-primary space, with column and lane: the
\* Location line shows the primary space only
C22_Witness ==
  /\ RenderDone
  /\ LET meta == argv.input.card.meta
     IN /\ meta.board.set /\ meta.column /\ meta.lane
        /\ meta.board.spaces = Some(<<[id |-> 1, primary_path |-> FALSE],
                                      [id |-> 2, primary_path |-> TRUE]>>)
  /\ MetaLinesOf(RenderResult.markdown, "Location")
       = <<Meta("Location", <<2, "board", "column", "lane">>)>>

\* the member infos of the Members line of a document
MembersShown(md) ==
  LET lines == MetaLinesOf(md, "Members")
  IN IF lines = <<>> THEN <<>> ELSE lines[1].data
\* position of the member with an id in the fetched array
MemberOf(members, id) == CHOOSE m \in Range(members) : m.id = id

\* C23: in the Members line every member of role type 2 comes before every
\* member of another type, members of the same group keep their original
\* relative order, each member is rendered exactly once, and exactly the type-2
\* members carry the suffix ' (responsible)'; the line is there exactly when the
\* members array is non-empty.
C23_ResponsibleFirst ==
  RenderDone =>
    LET members == argv.input.card.members.val
        md == RenderResult.markdown
        shown == MembersShown(md)
    IN /\ Len(MetaLinesOf(md, "Members")) = (IF Len(members) > 0 THEN 1 ELSE 0)
       /\ Len(shown) = Len(members)
       /\ \A m \in Range(members) :
            Cardinality({k \in 1..Len(shown) : shown[k].id = m.id}) = 1
       /\ \A k \in 1..Len(shown) :
            shown[k].responsible <=> MemberOf(members, shown[k].id).type = 2
       /\ \A j, k \in 1..Len(shown) :
            (j < k /\ shown[k].responsible) => shown[j].responsible
       /\ \A j, k \in 1..Len(shown) :
            (j < k /\ shown[j].responsible = shown[k].responsible) => shown[j].id < shown[k].id

\* members of types 1, 2, 3 fetched in this order: the responsible one is shown
\* first, the two others in their original order
C23_Witness ==
  /\ RenderDone
  /\ [k \in 1..Len(argv.input.card.members.val) |-> argv.input.card.members.val[k].type]
       = <<1, 2, 3>>
  /\ MembersShown(RenderResult.markdown)
       = <<[id |-> 2, responsible |-> TRUE], [id |-> 1, responsible |-> FALSE],
           [id |-> 3, responsible |-> FALSE]>>

\* ------------------------------------------------------------- output directory
\* the operations that touch the filesystem
DiskKinds == {"mkdir", "writeFile", "pipe"}
WithOutputDir == argv.mode = "cli" /\ ~argv.stdoutOnly /\ argv.outputDir
\* where the root card's files go under --output-dir D
RootTarget == IF argv.recursive THEN Join(GivenOutputDir, IdName(RootId)) ELSE GivenOutputDir

\* C24: with --output-dir D and without --recursive, the CLI creates D and writes
\* card.md and card.json directly in D (nothing goes to D/<cardId>/); with
\* --recursive and the same D, the root card's card.md and card.json are written
\* in D/<cardId>/.  After a successful run both files are on disk there.
C24_OutputDir ==
  WithOutputDir =>
    /\ \A op \in issued :
         op.kind \in DiskKinds => IsPrefix(RootTarget, op.path)
    /\ ~argv.recursive => Join(GivenOutputDir, IdName(RootId)) \notin disk
    /\ argv.recursive => {Join(GivenOutputDir, "card.md"), Join(GivenOutputDir, "card.json")} \cap disk = {}
    /\ CleanExit =>
         /\ GivenOutputDir \in disk
         /\ HasCardFiles(RootTarget)

\* a single card download with --output-dir that has exited with code 0, card.md
\* and card.json directly in the directory
C24_Witness ==
  /\ WithOutputDir /\ ~argv.recursive /\ CleanExit
  /\ HasCardFiles(GivenOutputDir)
  /\ \E op \in issued : op.kind = "mkdir" /\ op.path = GivenOutputDir

\* ------------------------------------------------------------- order of the steps
\* the card directory of the visit an operation belongs to
VisitDir(op) ==
  CASE op.kind \in {"getCard", "getComments", "getChildren"} -> op.path
    [] op.kind = "mkdir" /\ Last(op.path) \in {"comments", "files", "children"} -> Front(op.path)
    [] op.kind = "mkdir" -> op.path
    [] op.kind = "writeFile" /\ Last(op.path) \in {"card.md", "card.json"} -> Front(op.path)
    [] OTHER -> Front(Front(op.path))

\* the place of an operation in the order of the steps of its visit
StepOf(op) ==
  CASE op.kind = "getCard" -> <<1, 0, 0>>
    [] op.kind = "getComments" -> <<2, 0, 0>>
    [] op.kind = "getChildren" -> <<3, 0, 0>>
    [] op.kind = "mkdir" /\ Last(op.path) = "comments" -> <<7, 0, 0>>
    [] op.kind = "mkdir" /\ Last(op.path) = "files" -> <<9, 0, 0>>
    [] op.kind = "mkdir" /\ Last(op.path) = "children" -> <<11, 0, 0>>
    [] op.kind = "mkdir" -> <<4, 0, 0>>
    [] op.kind = "writeFile" /\ Last(op.path) = "card.md" -> <<5, 0, 0>>
    [] op.kind = "writeFile" /\ Last(op.path) = "card.json" -> <<6, 0, 0>>
    [] op.kind = "writeFile" -> <<8, op.idx, 0>>
    [] op.kind = "getFile" -> <<10, op.idx, 0>>
    [] OTHER -> <<10, op.idx, 1>>
Before(a, b) ==
  \/ a[1] < b[1]
  \/ a[1] = b[1] /\ a[2] < b[2]
  \/ a[1] = b[1] /\ a[2] = b[2] /\ a[3] < b[3]
IssuedStep(dir, step) == \E op \in issued : VisitDir(op) = dir /\ StepOf(op) = step
\* the card directories above a card directory: <dir>/children/<id>/... has <dir>
AncestorDirs(dir) ==
  {SubSeq(dir, 1, k) : k \in {j \in 1..(Len(dir) - 2) : dir[j + 1] = "children"}}
\* stages of a recursive call after its comment files / after its attachments
AfterCommentFiles == {"mkdirFiles", "requestFile", "pipeFile", "mkdirChildren", "callChild", "return"}
AfterAttachments == {"mkdirChildren", "callChild", "return"}

\* C25: in a recursive download the steps of each visited card happen in the
\* order card GET, comments GET, children GET (exactly when children_count > 0),
\* create the card directory, write card.md, write card.json, write the comment
\* files, download the attachments, recurse: no step is started while an earlier
\* step of the same card is in flight, each step finds the earlier ones done
\* (directory, card.md, card.json on disk; all comment files written before the
\* attachments; all attachments settled before the children), and every
\* operation for a descendant finds its ancestors' card.md and card.json on disk.
\* The disk and the set of issued operations only grow, so what an operation
\* finds while it is in flight stays true afterwards.
C25_StepOrder ==
  RecursiveRun =>
    /\ \A a \in pending, b \in issued :
         VisitDir(a) = VisitDir(b) => ~Before(StepOf(a), StepOf(b))
    /\ \A op \in pending :
         LET d == VisitDir(op)
             n == StepOf(op)[1]
         IN /\ n >= 2 => IssuedStep(d, <<1, 0, 0>>)
            /\ n >= 3 => IssuedStep(d, <<2, 0, 0>>)
            /\ n = 3 => api.card[op.card] # <<>> /\ api.card[op.card][1].cc
            /\ (n >= 4 /\ api.card[op.card][1].cc) => IssuedStep(d, <<3, 0, 0>>)
            /\ n >= 5 => d \in disk
            /\ n >= 6 => Join(d, "card.md") \in disk
            /\ n >= 7 => Join(d, "card.json") \in disk
    /\ \A k \in 1..Len(stack) :
         LET f == stack[k]
         IN /\ f.pc \in AfterCommentFiles =>
                 \A j \in 1..f.comments : Join(CommentsDir(f), CommentName(j)) \in disk
            /\ f.pc \in AfterAttachments =>
                 \A j \in 1..f.card.nfiles : FilePath(f, j) \in hist.fileDone \cup hist.fileFailed
            /\ k > 1 => HasCardFiles(CardDir(stack[k - 1]))
    /\ \A a \in pending, b \in issued :
         IsPrefix(Join(VisitDir(a), "children"), VisitDir(b)) => StepOf(a)[1] = 11
    /\ \A b \in pending : \A d \in AncestorDirs(VisitDir(b)) : HasCardFiles(d)

\* a card with a comment, attachments and a child: the request for the child
\* is issued with the parent's card.md, card.json, comment file and attachments
\* on disk
C25_Witness ==
  /\ RecursiveRun
  /\ Len(stack) = 2 /\ stack[2].pc = "getCard" /\ stack[2].waiting
  /\ stack[1].comments = 1 /\ stack[1].card.nfiles = MaxFiles
  /\ HasCardFiles(CardDir(stack[1]))
  /\ Join(CommentsDir(stack[1]), CommentName(1)) \in disk
  /\ \A j \in 1..MaxFiles : FilePath(stack[1], j) \in hist.fileDone

\* ------------------------------------------------------------- createSpace's fallback
SpaceRun == CreatorRun /\ argv.fn = "createSpace"
FirstPosts == {op \in Posts : op.idx = 1}
SecondPosts == {op \in Posts : op.idx = 2}

\* C26: createSpace issues a second POST, to <base>/latest/spaces, only when the
\* first POST failed and apiBase ends with '/v1'; it then returns the second
\* response's data if that POST succeeds and throws the second error if it
\* fails; when apiBase does not end with '/v1' a failed first POST is rethrown as
\* is and no second request is made; a successful first POST is never followed
\* by another request.
C26_SpaceFallback ==
  SpaceRun =>
    LET base == BaseOrEnv(argv.apiBase)
    IN /\ \A op \in SecondPosts :
            /\ EndsWithV1(base)
            /\ op.path = Append(Front(base), "latest") \o <<"spaces">>
            /\ \E first \in FirstPosts : first \in hist.failed /\ first \notin pending
       /\ \A op \in FirstPosts : op.path = base \o <<"spaces">>
       /\ Cardinality(FirstPosts) <= 1 /\ Cardinality(SecondPosts) <= 1
       /\ (phase = "returned" /\ SecondPosts # {}) =>
            \A op \in SecondPosts : hist.libResult = <<Created(op)>> /\ op \notin hist.failed
       /\ (phase = "returned" /\ SecondPosts = {}) =>
            \A op \in FirstPosts : hist.libResult = <<Created(op)>> /\ op \notin hist.failed
       /\ (phase = "threw" /\ Posts # {} /\ EndsWithV1(base)) =>
            /\ SecondPosts # {}
            /\ \A op \in SecondPosts : hist.libError = <<op>> /\ op \in hist.failed
       /\ (phase = "threw" /\ Posts # {} /\ ~EndsWithV1(base)) =>
            /\ SecondPosts = {}
            /\ \A op \in FirstPosts : hist.libError = <<op>> /\ op \in hist.failed
       /\ (FirstPosts # {} /\ FirstPosts \cap hist.failed = {} /\ pending = {}) =>
            /\ phase = "returned" /\ SecondPosts = {}
       /\ (\E op \in FirstPosts : op \in hist.failed) =>
            (EndsWithV1(base) <=> (SecondPosts # {} \/ (Running /\ Top.pc = "postFallback")))

\* createSpace with a base ending in /v1: both POSTs failed and the error thrown
\* is the second one
C26_Witness ==
  /\ SpaceRun /\ phase = "threw"
  /\ Cardinality(Posts \cap hist.failed) = 2
  /\ hist.libError[1].idx = 2
  /\ hist.libError[1].path = <<"kaiten", "latest", "spaces">>

\* ------------------------------------------------------------- a failed card request
FailedCardGets == {op \in hist.failed : op.kind = "getCard"}

\* C27: if the GET of a card fails, the call of downloadCardRecursive for that
\* card issues no comments or children request, creates no directory and writes
\* no file for that card: no other operation carries that card's directory, and
\* nothing at or below that directory is on disk.
C27_FailedCardLeavesNothing ==
  RecursiveRun =>
    \A op \in FailedCardGets :
      /\ \A other \in issued : IsPrefix(op.path, VisitDir(other)) => other = op
      /\ \A p \in disk : ~IsPrefix(op.path, p)
      /\ op.path \in hist.threw
      /\ \A k \in 1..Len(stack) : CardDir(stack[k]) # op.path

\* the GET of a child card failed: its parent's children/ directory is there,
\* the child's directory is not, and the run went on
C27_Witness ==
  /\ RecursiveRun
  /\ \E op \in FailedCardGets :
       /\ Len(op.path) > Len(RootOutputDir) + 1
       /\ Front(op.path) \in disk
       /\ op.path \notin disk
  /\ CleanExit

\* ------------------------------------------------------------- the depth limit
\* the targets of the links of a Children Cards section: ./children/<id>/card.md
LinkTargets(lines) ==
  LET IsLink(l) == l.k = "link" /\ l.what = "child"
      links == SelectSeq(lines, IsLink)
  IN [k \in 1..Len(links) |-> <<"children", IdName(links[k].data[1]), "card.md">>]
\* the children list as the renderer receives it
ChildObjects(ids) == [k \in 1..Len(ids) |-> [id |-> ids[k]]]
AfterDownloadCard == {"mkdirCard", "writeMd", "writeJson", "mkdirComments", "writeComment",
                      "mkdirFiles", "requestFile", "pipeFile", "mkdirChildren", "callChild",
                      "return"}

\* C28: for a card at depth = maxDepth with children_count > 0 the recursive
\* downloader still requests the children list and its card.md has the Children
\* Cards section with one link ./children/<id>/card.md per child returned, but
\* the call creates no children/ directory and downloads no child: no operation
\* is ever issued below <cardDir>/children and none of the linked files exists.
C28_DepthLimitKeepsLinks ==
  RecursiveRun =>
    /\ \A call \in hist.calls :
         call.depth = argv.maxDepth =>
           /\ \A p \in disk : ~IsPrefix(Join(call.dir, "children"), p)
           /\ \A op \in issued : ~IsPrefix(Join(call.dir, "children"), op.path)
    /\ \A k \in 1..Len(stack) :
         LET f == stack[k]
         IN (f.depth = f.maxDepth /\ f.card.cc /\ f.pc \in AfterDownloadCard) =>
              /\ IssuedStep(CardDir(f), <<3, 0, 0>>)
              /\ f.md.children = f.children
              /\ LinkTargets(ChildrenSection(ChildObjects(f.md.children)))
                   = [j \in 1..Len(f.children) |-> <<"children", IdName(f.children[j]), "card.md">>]
              /\ Len(f.children) > 0 =>
                   H2("Children Cards") \in Range(ChildrenSection(ChildObjects(f.md.children)))
              /\ f.pc \notin {"mkdirChildren", "callChild"}
              /\ \A j \in 1..Len(f.children) :
                   Join(Join(ChildrenDir(f), IdName(f.children[j])), "card.md") \notin disk

\* a run with --max-depth 1 has ended: a card at depth 1 lists children, its
\* card.md and card.json are written, and there is no children/ directory in it
C28_Witness ==
  /\ RecursiveRun /\ argv.maxDepth = 1 /\ CleanExit
  /\ \E call \in hist.calls, c \in CardIds :
       /\ call.depth = 1 /\ Last(call.dir) = IdName(c)
       /\ Kids(c) # <<>>
       /\ HasCardFiles(call.dir)
       /\ Join(call.dir, "children") \notin disk
       /\ \E op \in issued : op.kind = "getChildren" /\ op.path = call.dir

\* ------------------------------------------------------------- downloadFile settles
\* the call at stack height n is inside downloadFile for its k-th attachment
InDownloadFile(n, k) ==
  /\ Running /\ Len(stack) = n
  /\ Top.pc \in {"requestFile", "pipeFile"} /\ Top.i = k

\* C29: every call of downloadFile eventually resolves or rejects, whatever
\* happens to the transfer (failed request, error of the response stream, write
\* error): a call that is inside downloadFile for an attachment eventually
\* leaves it, for the next attachment or for the rest of the card.
C29_DownloadFileSettles ==
  \A n \in 1..(MaxDepthOpt + 1), k \in 1..MaxFiles :
    InDownloadFile(n, k) ~> ~InDownloadFile(n, k)

\* ------------------------------------------------------------- staying inside the root
RootCardDir == Join(RootOutputDir, IdName(RootId))

\* C30: every directory and file a recursive download creates lies inside
\* <outputDir>/<rootCardId>/ (or is an ancestor that had to be created for it),
\* for every attachment name and every child id the API returns: each attachment
\* is written inside its card's files/ directory and each child inside its
\* parent's children/ directory.
C30_StaysInsideRoot ==
  RecursiveRun =>
    /\ \A op \in issued :
         op.kind \in DiskKinds => IsPrefix(RootCardDir, op.path) \/ IsPrefix(op.path, RootCardDir)
    /\ \A p \in disk : IsPrefix(RootCardDir, p) \/ IsPrefix(p, RootCardDir)
    /\ \A k \in 1..Len(stack) :
         LET f == stack[k]
         IN /\ f.pc \in {"requestFile", "pipeFile"} =>
                 /\ IsPrefix(FilesDir(f), FilePath(f, f.i))
                 /\ Len(FilePath(f, f.i)) > Len(FilesDir(f))
            /\ k > 1 => /\ f.outputDir = ChildrenDir(stack[k - 1])
                        /\ CardDir(f) = Join(f.outputDir, IdName(f.cardId))

====
